---- MODULE Spec2Model ----
(***************************************************************************)
(* Transactional file source (TransactionFileSource) over a deferred       *)
(* write-back cache (CachedFileSource) over a backend file source, with    *)
(* the per-file reader/writer lock (Lockable) it negotiates.               *)
(*                                                                         *)
(* Granularity: a backend call is a suspension point.  The lock            *)
(* negotiation of an operation runs synchronously before its first await,  *)
(* so it is one step together with the cache call it guards (the file is   *)
(* locked while that call runs).  commit() is three kinds of steps: end()  *)
(* marks the transaction expired, each flush(path) reaches the backend on  *)
(* its own, and the locks are released once every flush has settled.       *)
(* abort() awaits no backend call and is one step.                         *)
(*                                                                         *)
(* Specifications: Spec (concurrent transactions on one file), SpecSerial  *)
(* (one transaction after the other on two files), SpecNoList (concurrent  *)
(* transactions on two files that never list) and SpecLocking (Spec, or a  *)
(* client that uses one Lockable directly).                                *)
(***************************************************************************)
EXTENDS Integers, Sequences, FiniteSets, TLC

(* ----------------------------- bounds ---------------------------------- *)
\* Number of transaction objects that exist at the same time.
NumTx == 2
\* Number of locks a direct client of one Lockable creates.
MaxLocks == 3
\* Number of calls the block given to transact makes.
MaxBody == 2
\* Number of files a MemFileSource used directly holds at a time.
MaxKeys == 4
\* Most calls made on the ReadWriteLockFileSource.
MaxOps == 3
\* Most nested calls the call stack holds.
MaxStack == 3
\* options.maxSize of the RandomAccessFileSource (characters per container).
MaxSize == 3
\* options.maxItems of the JSONMapFileSource (entries per container).
MaxItems == 2
\* Longest text of a container that is followed.
MaxText == 4
\* Most containers a packed store creates.
MaxContainers == 2

Tx == 1..NumTx
\* File paths and contents the clients use (the ones of the tests).
Paths == {"file1", "file2"}
Contents == {"content1", "content2"}
\* Values of the encrypt/decrypt argument the clients pass.
Flags == {FALSE}
\* File names given to a MemFileSource used directly, each the sequence of
\* its characters.
Keys == {<<"a">>, <<"a", "a">>, <<"a", "b">>, <<"b">>}

(* ----------------------------- values ---------------------------------- *)
\* A missing property of a JS object, and the JS null.
Undefined == "undefined"
Null == "null"

\* JS truthiness of a file content (string | null | undefined).
Truthy(c) == c \notin {Undefined, Null, ""}

Read == "Read"
Write == "Write"

\* LockType; NoLock stands for null / undefined where a lock may be stored.
NoLock == [level |-> "none", id |-> 0]
Lock(level, id) == [level |-> level, id |-> id]

(* ----------------------------- Lockable -------------------------------- *)
\* new Lockable(): writeLock = null, readLocks = [].
NewLockable == [writeLock |-> NoLock, readLocks |-> <<>>]

HasReader(lb, id) == \E i \in 1..Len(lb.readLocks) : lb.readLocks[i].id = id

\* Variant of _acquire that forgets to refuse a writer while foreign readers
\* hold the file.
AcquireIgnoringReaders(lb, lock) ==
    IF lb.writeLock # NoLock /\ lb.writeLock.id # lock.id
    THEN [ok |-> FALSE, lb |-> lb]
    ELSE IF lock.level = Read
         THEN [ok |-> TRUE,
               lb |-> IF (lb.writeLock # NoLock /\ lb.writeLock.id = lock.id)
                         \/ ~HasReader(lb, lock.id)
                      THEN [lb EXCEPT !.readLocks = Append(@, lock)]
                      ELSE lb]
         ELSE [ok |-> TRUE,
               lb |-> [writeLock |-> lock,
                       readLocks |->
                          IF Len(lb.readLocks) = 1 /\ lb.readLocks[1].id = lock.id
                          THEN Tail(lb.readLocks) ELSE lb.readLocks]]

\* Lockable._acquire: [ok, lb] is the returned boolean and the Lockable after.
Acquire(lb, lock) ==
    IF lb.writeLock # NoLock /\ lb.writeLock.id # lock.id
    THEN [ok |-> FALSE, lb |-> lb]
    ELSE IF lock.level = Write
            /\ Len(lb.readLocks) # 0
            /\ (Len(lb.readLocks) # 1 \/ lb.readLocks[1].id # lock.id)
    THEN [ok |-> FALSE, lb |-> lb]
    ELSE IF lock.level = Read
         THEN [ok |-> TRUE,
               lb |-> IF (lb.writeLock # NoLock /\ lb.writeLock.id = lock.id)
                         \/ ~HasReader(lb, lock.id)
                      THEN [lb EXCEPT !.readLocks = Append(@, lock)]
                      ELSE lb]
         ELSE [ok |-> TRUE,
               lb |-> [writeLock |-> lock,
                       readLocks |->
                          IF Len(lb.readLocks) = 1 /\ lb.readLocks[1].id = lock.id
                          THEN Tail(lb.readLocks) ELSE lb.readLocks]]

\* Lockable.createAndAcquire(level); id is the fresh uuid of the new lock.
\* ok = FALSE is the thrown "Failed to acquire lock.".
CreateAndAcquire(lb, level, id) ==
    LET r == Acquire(lb, Lock(level, id))
    IN [ok |-> r.ok, lb |-> r.lb, lock |-> Lock(level, id)]

\* Variant of upgrade that asks for a newly created Write lock instead of a
\* copy of the submitted lock (no lock handed out has id 0).
UpgradeWithNewId(lb, lock) ==
    IF lb.writeLock # NoLock /\ lb.writeLock.id = lock.id
    THEN [ok |-> TRUE, lb |-> lb, lock |-> lb.writeLock]
    ELSE LET r == Acquire(lb, Lock(Write, 0))
         IN [ok |-> r.ok, lb |-> r.lb, lock |-> Lock(Write, 0)]

\* Lockable.upgrade(lock).
Upgrade(lb, lock) ==
    IF lb.writeLock # NoLock /\ lb.writeLock.id = lock.id
    THEN [ok |-> TRUE, lb |-> lb, lock |-> lb.writeLock]
    ELSE LET r == Acquire(lb, Lock(Write, lock.id))
         IN [ok |-> r.ok, lb |-> r.lb, lock |-> Lock(Write, lock.id)]

\* The sequence s without its first element satisfying the test.
RECURSIVE RemoveFirst(_, _, _)
RemoveFirst(s, id, levels) ==
    IF s = <<>> THEN <<>>
    ELSE IF Head(s).id = id /\ Head(s).level \in levels THEN Tail(s)
    ELSE <<Head(s)>> \o RemoveFirst(Tail(s), id, levels)

\* Lockable.release(lock).
Release(lb, lock) ==
    IF lock.level = Write
    THEN IF lb.writeLock # NoLock /\ lb.writeLock.id = lock.id
         THEN [lb EXCEPT !.writeLock = NoLock] ELSE lb
    ELSE [lb EXCEPT !.readLocks = RemoveFirst(@, lock.id, {Read, Write})]

\* Lockable.isLocked.
IsLocked(lb) == lb.writeLock # NoLock \/ Len(lb.readLocks) > 0

(* --------------------- backend (MockFileSource) ------------------------- *)
\* The backend's files object is modelled by files, the content of each path
\* (Undefined: no such property), and order, the paths in insertion order,
\* which is the order Object.keys lists them in.
RECURSIVE SeqWithout(_, _)
SeqWithout(s, x) ==
    IF s = <<>> THEN <<>>
    ELSE IF Head(s) = x THEN SeqWithout(Tail(s), x)
    ELSE <<Head(s)>> \o SeqWithout(Tail(s), x)

\* new MockFileSource(): no file.
NoFilesOver(D) == [files |-> [p \in D |-> Undefined], order |-> <<>>]
NoFiles == NoFilesOver(Paths)

\* MockFileSource.getFile: null for a file that does not exist.
BackendGetFile(b, path) ==
    IF b.files[path] = Undefined THEN Null ELSE b.files[path]

\* MockFileSource.putFile.
BackendPutFile(b, path, content) ==
    [files |-> [b.files EXCEPT ![path] = content],
     order |-> IF b.files[path] = Undefined THEN Append(b.order, path) ELSE b.order]

\* MockFileSource.deleteFile.
BackendDeleteFile(b, path) ==
    [files |-> [b.files EXCEPT ![path] = Undefined],
     order |-> SeqWithout(b.order, path)]

\* Variant of the callback loop that skips a refused name and goes on.
RECURSIVE AcceptedOnly(_, _)
AcceptedOnly(names, accepted) ==
    IF names = <<>> THEN <<>>
    ELSE IF Head(names) \notin accepted THEN AcceptedOnly(Tail(names), accepted)
    ELSE <<Head(names)>> \o AcceptedOnly(Tail(names), accepted)

\* The early-terminating callback loop of listFiles (no pathFilter): the
\* leading run of the listed names for which the callback returns true.
RECURSIVE LeadingRun(_, _)
LeadingRun(names, accepted) ==
    IF names = <<>> THEN <<>>
    ELSE IF Head(names) \notin accepted THEN <<>>
    ELSE <<Head(names)>> \o LeadingRun(Tail(names), accepted)

\* f.startsWith(pathFilter), a name being the sequence of its characters.
StartsWith(f, pathFilter) ==
    /\ Len(pathFilter) <= Len(f)
    /\ SubSeq(f, 1, Len(pathFilter)) = pathFilter

RECURSIVE FilterPrefix(_, _)
FilterPrefix(names, pathFilter) ==
    IF names = <<>> THEN <<>>
    ELSE IF StartsWith(Head(names), pathFilter)
         THEN <<Head(names)>> \o FilterPrefix(Tail(names), pathFilter)
         ELSE FilterPrefix(Tail(names), pathFilter)

\* listFiles({ pathFilter, callback }) of MemFileSource and MockFileSource
\* over the keys of the files object; an empty pathFilter is falsy and
\* filters nothing; accepted are the names the callback returns true for.
MemListFiles(keys, pathFilter, accepted) ==
    LeadingRun(IF pathFilter = <<>> THEN keys ELSE FilterPrefix(keys, pathFilter),
               accepted)

\* MockFileSource.getFileUrl: a url exactly for a file with truthy content.
BackendGetFileUrl(b, path) ==
    IF ~Truthy(b.files[path]) THEN Null ELSE "url"

(* ------------------------- CachedFileSource ----------------------------- *)
Updated == "Updated"
Deleted == "Deleted"
\* modifications[path] when the property is missing.
NoMod == [type |-> "none", encrypted |-> FALSE]

\* State after the constructor.  cache and originalCache are the files
\* objects of the two MemFileSources; lastEncryptState and
\* originalEncryptState are read through !! only, so a missing property is
\* FALSE.
NewCacheOver(D) ==
    [cache |-> [p \in D |-> Undefined],
     originalCache |-> [p \in D |-> Undefined],
     negativeCache |-> [p \in D |-> FALSE],
     modifications |-> [p \in D |-> NoMod],
     hasList |-> FALSE,
     lastEncryptState |-> [p \in D |-> FALSE],
     originalEncryptState |-> [p \in D |-> FALSE]]
NewCache == NewCacheOver(Paths)

\* MemFileSource.getFile: null for a missing property, else what is stored.
MemGetFile(files, path) == IF files[path] = Undefined THEN Null ELSE files[path]

IsDeleted(c, path) == c.modifications[path].type = Deleted

\* CachedFileSource.getFile: the cache and what the call returns (the
\* backend is only read).  The returned value is the one found in the cache
\* before the backend was asked.
CachedGetFile(c, b, path, decrypt) ==
    IF IsDeleted(c, path) \/ c.negativeCache[path]
    THEN [c |-> c, result |-> Null]
    ELSE LET cached == MemGetFile(c.cache, path)
             contents == BackendGetFile(b, path)
             c1 == IF Truthy(cached) THEN c
                   ELSE IF Truthy(contents)
                        THEN [c EXCEPT !.cache[path] = contents]
                        ELSE [c EXCEPT !.negativeCache[path] = TRUE]
         IN [c |-> [c1 EXCEPT !.lastEncryptState[path] = decrypt],
             result |-> cached]

\* The first lines of putFile and deleteFile: keep the current cache value as
\* the original when no original is recorded yet.
SnapshotOriginal(c, path) ==
    IF Truthy(MemGetFile(c.originalCache, path)) THEN c
    ELSE LET curEncrypt == c.lastEncryptState[path]
             cur == MemGetFile(c.cache, path)
         IN IF Truthy(cur)
            THEN [c EXCEPT !.originalCache[path] = cur,
                           !.originalEncryptState[path] = curEncrypt]
            ELSE c

\* A write sent to the backend; NoOp where none is.
PutOp(content) == [op |-> "put", content |-> content]
DeleteOp == [op |-> "delete", content |-> Null]
NoOp == [op |-> "none", content |-> Null]

\* Variant of flushOne that sends a put for a deletion as well.
FlushStartPutOnly(c, path) ==
    IF c.modifications[path] = NoMod THEN NoOp
    ELSE PutOp(MemGetFile(c.cache, path))

\* flush(path) up to its backend call: the write flushOne sends for the
\* modification it finds, with the content the cache holds then.
FlushStart(c, path) ==
    IF c.modifications[path] = NoMod THEN NoOp
    ELSE IF c.modifications[path].type = Deleted THEN DeleteOp
    ELSE PutOp(MemGetFile(c.cache, path))

\* flush(path) from the completion of its backend call: the write takes
\* effect, and the modification and the original are cleared.
FlushSettle(c, b, path, op) ==
    [c |-> [c EXCEPT !.modifications[path] = NoMod,
                     !.originalCache[path] = Undefined,
                     !.originalEncryptState[path] = FALSE],
     b |-> IF op.op = "delete" THEN BackendDeleteFile(b, path)
           ELSE BackendPutFile(b, path, op.content)]

\* CachedFileSource.flush(path) with nothing else running meanwhile: the
\* cache, the backend, and the backend writes the call issued.
CachedFlush(c, b, path) ==
    LET op == FlushStart(c, path)
        f == FlushSettle(c, b, path, op)
    IN IF op = NoOp THEN [c |-> c, b |-> b, ops |-> <<>>]
       ELSE [c |-> f.c, b |-> f.b, ops |-> <<op>>]

\* The backend after the writes flush() sends for the paths, one after the
\* other.
RECURSIVE FlushEach(_, _, _)
FlushEach(c, b, paths) ==
    IF paths = {} THEN b
    ELSE LET path == CHOOSE p \in paths : TRUE
         IN FlushEach(c, FlushSettle(c, b, path, FlushStart(c, path)).b,
                      paths \ {path})

\* CachedFileSource.flush(): every modification is sent, then the
\* modifications and all originals are cleared.  ops are the backend writes
\* issued, by path.
CachedFlushAll(c, b) ==
    LET modified == {p \in Paths : c.modifications[p] # NoMod}
    IN [c |-> [c EXCEPT !.modifications = [p \in Paths |-> NoMod],
                        !.originalCache = [p \in Paths |-> Undefined],
                        !.originalEncryptState = [p \in Paths |-> FALSE]],
        b |-> FlushEach(c, b, modified),
        ops |-> [p \in Paths |->
                    IF p \in modified THEN <<FlushStart(c, p)>> ELSE <<>>]]

\* Variant of putFile that leaves the negative caching mark.
CachedPutFileKeepingMark(c, b, path, content, encrypt, autoFlushing) ==
    LET c1 == SnapshotOriginal(c, path)
        c2 == [c1 EXCEPT !.cache[path] = content,
                         !.lastEncryptState[path] = encrypt,
                         !.modifications[path] =
                             [type |-> Updated, encrypted |-> encrypt]]
    IN IF autoFlushing THEN CachedFlush(c2, b, path)
       ELSE [c |-> c2, b |-> b, ops |-> <<>>]

\* CachedFileSource.putFile.
CachedPutFile(c, b, path, content, encrypt, autoFlushing) ==
    LET c1 == SnapshotOriginal(c, path)
        c2 == [c1 EXCEPT !.cache[path] = content,
                         !.lastEncryptState[path] = encrypt,
                         !.modifications[path] =
                             [type |-> Updated, encrypted |-> encrypt],
                         !.negativeCache[path] = FALSE]
    IN IF autoFlushing THEN CachedFlush(c2, b, path)
       ELSE [c |-> c2, b |-> b, ops |-> <<>>]

\* CachedFileSource.deleteFile.
CachedDeleteFile(c, b, path, autoFlushing) ==
    LET c1 == SnapshotOriginal(c, path)
        c2 == [c1 EXCEPT !.cache[path] = Undefined,
                         !.modifications[path] =
                             [type |-> Deleted, encrypted |-> FALSE],
                         !.negativeCache[path] = TRUE]
    IN IF autoFlushing THEN CachedFlush(c2, b, path)
       ELSE [c |-> c2, b |-> b, ops |-> <<>>]

\* CachedFileSource.listFiles without options: on the first call the backend
\* is listed with the callback isDeleted and each returned name is stored as
\* a stub; the result is the set of the names the cache holds.
CachedListFiles(c, b) ==
    LET listed == LeadingRun(b.order, {p \in Paths : IsDeleted(c, p)})
        c1 == IF c.hasList THEN c
              ELSE [c EXCEPT !.hasList = TRUE,
                             !.cache = [p \in Paths |->
                                 IF \E i \in 1..Len(listed) : listed[i] = p
                                 THEN Null ELSE c.cache[p]]]
    IN [c |-> c1, result |-> {p \in Paths : c1.cache[p] # Undefined}]

\* CachedFileSource.getFileUrl with cacheFileUrls = true (the default, which
\* TransactionFileSource keeps): the backend's answer, nothing cached.
CachedGetFileUrl(c, b, path) == [c |-> c, result |-> BackendGetFileUrl(b, path)]

\* CachedFileSource.abortChanges(path).
CachedAbortChanges(c, path) ==
    IF c.modifications[path] = NoMod THEN c
    ELSE LET origEncrypt == c.originalEncryptState[path]
             orig == MemGetFile(c.originalCache, path)
         IN [c EXCEPT !.cache[path] = orig,
                      !.lastEncryptState[path] = origEncrypt,
                      !.modifications[path] = NoMod]

(* ----------------------- RandomAccessFileSource ------------------------ *)
\* The file contents the clients of the packed stores put.
Values == {"a", "bb"}

\* The names uuid() gives the containers, in the order of their creation.
Container(n) == "u" \o ToString(n)
Containers == {Container(n) : n \in 1..MaxContainers}
\* The files of the cached file source under a packed store: its master,
\* its containers, and the container a put beyond the bound would create
\* (such a put is not taken).
PackedFiles(master) == {master} \cup Containers \cup {Container(MaxContainers + 1)}

\* MASTER_FILE_NAME of the RandomAccessFileSource.
RAMaster == "ra-master.json"

\* String.prototype.slice(from, to) and substr(from, length) for arguments
\* that are not negative: indices past the end stop at the end.
Min(a, b) == IF a < b THEN a ELSE b
Slice(str, from, to) ==
    IF from >= Min(to, Len(str)) THEN "" ELSE SubSeq(str, from + 1, Min(to, Len(str)))
Substr(str, from, length) == Slice(str, from, from + length)

\* A FileIndex stored under the name of a file, and a RandomAccessFile.
FileIndex(name, path, position, length, encrypted) ==
    [name |-> name, path |-> path, position |-> position, length |-> length,
     encrypted |-> encrypted]
RandomAccessFile(path, size, encrypted) ==
    [path |-> path, size |-> size, encrypted |-> encrypted]

\* new RandomAccessFileSource(new CachedFileSource(new MockFileSource(),
\* { autoFlushing }), { maxSize }): nothing loaded. fileIndexes are the
\* properties of _fileIndexes in the order Object.keys gives them; created
\* counts the calls of uuid(); writes are the files the operation under way
\* has written to or deleted from its fileSource so far, in order
\* (observation only); puts are the putFile calls of new names that wait at
\* the await of addContents, each with the arguments of that call.
NewRandomAccess(autoFlushing) ==
    [loaded |-> FALSE, fileIndexes |-> <<>>, randomAccessFileList |-> <<>>,
     created |-> 0, writes |-> <<>>, puts |-> {},
     c |-> NewCacheOver(PackedFiles(RAMaster)),
     b |-> NoFilesOver(PackedFiles(RAMaster)),
     autoFlushing |-> autoFlushing]

\* this.fileIndexes[path]: its place in fileIndexes, 0 for undefined.
IndexAt(indexes, name) ==
    IF \E i \in 1..Len(indexes) : indexes[i].name = name
    THEN CHOOSE i \in 1..Len(indexes) : indexes[i].name = name
    ELSE 0

\* this.fileIndexes[path] = index: an existing property keeps its place.
SetIndex(indexes, index) ==
    IF IndexAt(indexes, index.name) = 0 THEN Append(indexes, index)
    ELSE [indexes EXCEPT ![IndexAt(indexes, index.name)] = index]

\* delete this.fileIndexes[path].
RECURSIVE DeleteIndex(_, _)
DeleteIndex(indexes, name) ==
    IF indexes = <<>> THEN <<>>
    ELSE IF Head(indexes).name = name THEN Tail(indexes)
    ELSE <<Head(indexes)>> \o DeleteIndex(Tail(indexes), name)

\* The place of the RandomAccessFile of a path in the list, 0 if none.
FileAt(list, path) ==
    IF \E i \in 1..Len(list) : list[i].path = path
    THEN CHOOSE i \in 1..Len(list) : list[i].path = path
    ELSE 0

\* JSON texts.  The names and contents stored hold none of the characters
\* JSON escapes or gives a meaning to, so a text is cut at its punctuation.
\* The first place of the character ch in str, 0 if it has none.
First(str, ch) ==
    IF \E i \in 1..Len(str) : SubSeq(str, i, i) = ch
    THEN CHOOSE i \in 1..Len(str) :
             /\ SubSeq(str, i, i) = ch
             /\ \A j \in 1..(i - 1) : SubSeq(str, j, j) # ch
    ELSE 0

\* The pieces of str between the occurrences of ch.
RECURSIVE Pieces(_, _)
Pieces(str, ch) ==
    IF str = "" THEN <<>>
    ELSE IF First(str, ch) = 0 THEN <<str>>
    ELSE <<SubSeq(str, 1, First(str, ch) - 1)>>
         \o Pieces(SubSeq(str, First(str, ch) + 1, Len(str)), ch)

\* str without its first and its last character: a string without its
\* quotes, an object without its braces.
Inner(str) == SubSeq(str, 2, Len(str) - 1)

\* JSON.stringify of a string, a number and a boolean.
Quote(str) == ToString(str)
Number(n) == ToString(n)
Boolean(v) == IF v THEN "true" ELSE "false"

\* JSON.parse of the text of a number that is not negative.
RECURSIVE ParseNumber(_, _)
ParseNumber(str, acc) ==
    IF str = "" THEN acc
    ELSE ParseNumber(Tail(str),
                     10 * acc + (CHOOSE d \in 0..9 : ToString(d) = Head(str)))

\* JSON.stringify of an object given as the sequence of its properties
\* <<key, text of the value>>, in the order of Object.keys.
RECURSIVE StringifyProperties(_)
StringifyProperties(props) ==
    IF props = <<>> THEN ""
    ELSE Quote(props[1][1]) \o ":" \o props[1][2]
         \o (IF Len(props) > 1 THEN "," ELSE "")
         \o StringifyProperties(Tail(props))
StringifyObject(props) == "{" \o StringifyProperties(props) \o "}"

\* JSON.parse of the text of an object whose values are strings, numbers
\* and booleans: its properties <<key, text of the value>>.
ParseObject(text) ==
    LET parts == Pieces(Inner(text), ",")
    IN [i \in 1..Len(parts) |->
           <<Inner(SubSeq(parts[i], 1, First(parts[i], ":") - 1)),
             SubSeq(parts[i], First(parts[i], ":") + 1, Len(parts[i]))>>]

\* JSON.stringify of an array of objects given by their texts.
RECURSIVE StringifyElements(_)
StringifyElements(texts) ==
    IF texts = <<>> THEN ""
    ELSE texts[1] \o (IF Len(texts) > 1 THEN "," ELSE "")
         \o StringifyElements(Tail(texts))
StringifyArray(texts) == "[" \o StringifyElements(texts) \o "]"

\* JSON.parse of the text of an array of such objects: the properties of
\* each element.
ParseArray(text) ==
    LET parts == Pieces(Inner(text), "}")
    IN [i \in 1..Len(parts) |->
           ParseObject(SubSeq(parts[i], First(parts[i], "{"), Len(parts[i])) \o "}")]

\* object[key] as the text of its value.
Property(props, key) ==
    props[CHOOSE i \in 1..Len(props) : props[i][1] = key][2]

\* The element save() stores for a file index: Object.assign({}, fileIndex,
\* { parentPath: fileIndex.path, path: path }).
StoredFileIndex(index) ==
    StringifyObject(<< <<"path", Quote(index.name)>>,
                       <<"position", Number(index.position)>>,
                       <<"length", Number(index.length)>>,
                       <<"encrypted", Boolean(index.encrypted)>>,
                       <<"parentPath", Quote(index.path)>> >>)

\* JSON.stringify(storedFileIndexes) of save().
StringifyIndexes(indexes) ==
    StringifyArray([i \in 1..Len(indexes) |-> StoredFileIndex(indexes[i])])

\* The loop of load() over the parsed master from its x-th element on.
RECURSIVE LoadIndexes(_, _, _)
LoadIndexes(r, contents, x) ==
    IF x > Len(contents) THEN r
    ELSE LET index == contents[x]
             parentPath == Inner(Property(index, "parentPath"))
             length == ParseNumber(Property(index, "length"), 0)
             encrypted == Property(index, "encrypted") = "true"
             k == FileAt(r.randomAccessFileList, parentPath)
         IN LoadIndexes(
                [r EXCEPT
                    !.fileIndexes =
                        SetIndex(@, FileIndex(Inner(Property(index, "path")),
                                              parentPath,
                                              ParseNumber(Property(index, "position"), 0),
                                              length, encrypted)),
                    !.randomAccessFileList =
                        IF k = 0
                        THEN Append(@, RandomAccessFile(parentPath, length, encrypted))
                        ELSE [@ EXCEPT ![k].size = @ + length]],
                contents, x + 1)

\* The adjustment of putFile and deleteFile after a block was cut out of a
\* container: every index of the container with a position after that of
\* the removed block gets position -= index.position.
Shift(indexes, path, index) ==
    [i \in 1..Len(indexes) |->
        IF indexes[i].path = path /\ indexes[i].position > index.position
        THEN [indexes[i] EXCEPT !.position = @ - index.position]
        ELSE indexes[i]]

\* load(): the properties are preset, and filled from the master if the
\* cached file source returns one.
RALoad(r) ==
    LET g == CachedGetFile(r.c, r.b, RAMaster, TRUE)
        preset == [r EXCEPT !.loaded = TRUE, !.fileIndexes = <<>>,
                            !.randomAccessFileList = <<>>, !.c = g.c]
    IN IF Truthy(g.result) THEN LoadIndexes(preset, ParseArray(g.result), 1)
       ELSE preset

\* resolveFileIndex up to the lookup: the lazy load.
RAResolve(r) == IF r.loaded THEN r ELSE RALoad(r)

\* Variant of save() that writes nothing.
RASaveNothing(r) == r

\* save().
RASave(r) ==
    LET w == CachedPutFile(r.c, r.b, RAMaster,
                           StringifyIndexes(r.fileIndexes), TRUE,
                           r.autoFlushing)
    IN [r EXCEPT !.c = w.c, !.b = w.b, !.writes = Append(@, RAMaster)]

\* addContents(raFile, fileContent, path, newContent), raFile being the
\* k-th of the list.
RAAddContents(r, k, fileContent, name, newContent) ==
    LET raFile == r.randomAccessFileList[k]
        fsContent == fileContent \o newContent
        w == CachedPutFile(r.c, r.b, raFile.path, fsContent, raFile.encrypted,
                           r.autoFlushing)
    IN [r EXCEPT !.c = w.c, !.b = w.b, !.writes = Append(@, raFile.path),
                 !.fileIndexes =
                     SetIndex(@, FileIndex(name, raFile.path, Len(fileContent),
                                           Len(newContent), raFile.encrypted)),
                 !.randomAccessFileList[k].size = Len(fsContent)]

\* What a content read for a container stands for: "" if it is falsy.
OrEmpty(content) == IF Truthy(content) THEN content ELSE ""

\* putFileImpl(path, content, encrypt).
RAPutFileImpl(r, name, content, encrypt) ==
    LET list == r.randomAccessFileList
        fits == {k \in 1..Len(list) :
                    /\ list[k].encrypted = encrypt
                    /\ list[k].size + Len(content) <= MaxSize}
    IN IF fits = {}
       THEN LET raFile == RandomAccessFile(Container(r.created + 1), 0, encrypt)
            IN RAAddContents(
                   [r EXCEPT !.created = @ + 1,
                             !.randomAccessFileList = Append(@, raFile)],
                   Len(list) + 1, "", name, content)
       ELSE LET k == CHOOSE j \in fits : \A i \in fits : j <= i
                g == CachedGetFile(r.c, r.b, list[k].path, list[k].encrypted)
            IN RAAddContents([r EXCEPT !.c = g.c], k, OrEmpty(g.result), name,
                             content)

\* putFile(path, content, encrypt) of a name without an index, up to the
\* call of addContents in putFileImpl: the container is chosen, or made and
\* added to the list, and its content is read. [r, put]: the store after,
\* and the call that waits with the arguments of addContents.
RAPutRead(r0, name, content, encrypt) ==
    LET r == RAResolve(r0)
        list == r.randomAccessFileList
        fits == {k \in 1..Len(list) :
                    /\ list[k].encrypted = encrypt
                    /\ list[k].size + Len(content) <= MaxSize}
    IN IF fits = {}
       THEN [r |-> [r EXCEPT !.created = @ + 1,
                             !.randomAccessFileList =
                                 Append(@, RandomAccessFile(
                                     Container(r.created + 1), 0, encrypt))],
             put |-> [name |-> name, content |-> content,
                      k |-> Len(list) + 1, fileContent |-> ""]]
       ELSE LET k == CHOOSE j \in fits : \A i \in fits : j <= i
                g == CachedGetFile(r.c, r.b, list[k].path, list[k].encrypted)
            IN [r |-> [r EXCEPT !.c = g.c],
                put |-> [name |-> name, content |-> content,
                         k |-> k, fileContent |-> OrEmpty(g.result)]]

\* The rest of that putFile: addContents with the arguments the call waits
\* with, then save().
RAPutWrite(r, put) ==
    RASave(RAAddContents(r, put.k, put.fileContent, put.name, put.content))

\* RandomAccessFileSource.getFile: [r, result].
RAGet(r0, name) ==
    LET r == RAResolve(r0)
        at == IndexAt(r.fileIndexes, name)
    IN IF at = 0 THEN [r |-> r, result |-> Null]
       ELSE LET index == r.fileIndexes[at]
                g == CachedGetFile(r.c, r.b, index.path, index.encrypted)
                contents == IF Truthy(g.result)
                            THEN Substr(g.result, index.position, index.length)
                            ELSE Null
            IN [r |-> [r EXCEPT !.c = g.c],
                result |-> IF Truthy(contents) THEN contents ELSE Null]

\* RandomAccessFileSource.putFile.
RAPut(r0, name, content, encrypt) ==
    LET r == RAResolve(r0)
        at == IndexAt(r.fileIndexes, name)
    IN IF at = 0 THEN RASave(RAPutFileImpl(r, name, content, encrypt))
       ELSE LET index == r.fileIndexes[at]
                k == FileAt(r.randomAccessFileList, index.path)
                raFile == r.randomAccessFileList[k]
                g == CachedGetFile(r.c, r.b, raFile.path, raFile.encrypted)
                old == OrEmpty(g.result)
                fsContent == Slice(old, 0, index.position)
                             \o Slice(old, index.position + index.length, Len(old))
                r1 == [r EXCEPT !.c = g.c,
                                !.fileIndexes = Shift(@, raFile.path, index)]
            IN IF Len(fsContent) + Len(content) > MaxSize
               THEN LET w == CachedPutFile(r1.c, r1.b, raFile.path, fsContent,
                                           raFile.encrypted, r1.autoFlushing)
                    IN RASave(RAPutFileImpl(
                           [r1 EXCEPT !.c = w.c, !.b = w.b,
                                      !.writes = Append(@, raFile.path),
                                      !.randomAccessFileList[k].size = Len(fsContent)],
                           name, content, encrypt))
               ELSE RASave(RAAddContents(r1, k, fsContent, name, content))

\* RandomAccessFileSource.deleteFile.
RADelete(r0, name) ==
    LET r == RAResolve(r0)
        at == IndexAt(r.fileIndexes, name)
    IN IF at = 0 THEN r
       ELSE LET index == r.fileIndexes[at]
                k == FileAt(r.randomAccessFileList, index.path)
                raFile == r.randomAccessFileList[k]
                g == CachedGetFile(r.c, r.b, raFile.path, raFile.encrypted)
                old == OrEmpty(g.result)
                fsContent == Slice(old, 0, index.position)
                             \o Slice(old, index.position + index.length, Len(old))
                w == CachedPutFile(g.c, r.b, raFile.path, fsContent,
                                   raFile.encrypted, r.autoFlushing)
            IN RASave([r EXCEPT !.c = w.c, !.b = w.b,
                                !.writes = Append(@, raFile.path),
                                !.randomAccessFileList[k].size = Len(fsContent),
                                !.fileIndexes =
                                    Shift(DeleteIndex(@, name), raFile.path, index)])

\* RandomAccessFileSource.listFiles without options: the fileIndexes getter
\* throws while nothing is loaded.
RAList(r) ==
    IF ~r.loaded THEN [res |-> "Error", names |-> <<>>]
    ELSE [res |-> "ok",
          names |-> [i \in 1..Len(r.fileIndexes) |-> r.fileIndexes[i].name]]

(* ------------------------- JSONMapFileSource --------------------------- *)
\* MASTER_FILE_NAME of the JSONMapFileSource.
JMMaster == "jm-master.json"

\* A FileIndex stored under the name of a file, and a JSONMapFile.
JMFileIndex(name, path, encrypted) ==
    [name |-> name, path |-> path, encrypted |-> encrypted]
JSONMapFile(path, count, encrypted) ==
    [path |-> path, count |-> count, encrypted |-> encrypted]

\* new JSONMapFileSource(new CachedFileSource(new MockFileSource(),
\* { autoFlushing }), { maxItems }): nothing loaded.  jsonMapFileMap holds
\* the files of jsonMapFileList by their paths.
NewJSONMap(autoFlushing) ==
    [loaded |-> FALSE, fileIndexes |-> <<>>, jsonMapFileList |-> <<>>,
     created |-> 0, writes |-> <<>>,
     c |-> NewCacheOver(PackedFiles(JMMaster)),
     b |-> NoFilesOver(PackedFiles(JMMaster)),
     autoFlushing |-> autoFlushing]

\* The place of the property key in an object, 0 for undefined.
PropertyAt(props, key) ==
    IF \E i \in 1..Len(props) : props[i][1] = key
    THEN CHOOSE i \in 1..Len(props) : props[i][1] = key
    ELSE 0

\* object[key] = value: an existing property keeps its place.
SetProperty(props, key, text) ==
    IF PropertyAt(props, key) = 0 THEN Append(props, <<key, text>>)
    ELSE [props EXCEPT ![PropertyAt(props, key)] = <<key, text>>]

\* delete object[key].
RECURSIVE DeleteProperty(_, _)
DeleteProperty(props, key) ==
    IF props = <<>> THEN <<>>
    ELSE IF Head(props)[1] = key THEN Tail(props)
    ELSE <<Head(props)>> \o DeleteProperty(Tail(props), key)

\* Variant of the reading of a container that takes every content for one
\* that does not parse.
ParseAsEmpty(content) == <<>>

\* The object read from a container: {} when the content is falsy (the
\* texts the store writes always parse).
ParseContainer(content) ==
    IF Truthy(content) THEN ParseObject(content) ELSE <<>>

\* The element save() stores for a file index: Object.assign({}, fileIndex,
\* { parentPath: fileIndex.path, path: path }).
StoredJMFileIndex(index) ==
    StringifyObject(<< <<"path", Quote(index.name)>>,
                       <<"encrypted", Boolean(index.encrypted)>>,
                       <<"parentPath", Quote(index.path)>> >>)

\* Variant of the loop of load() that counts 1 for every container however
\* many entries point to it.
RECURSIVE LoadJMIndexesCountingOne(_, _, _)
LoadJMIndexesCountingOne(r, contents, x) ==
    IF x > Len(contents) THEN r
    ELSE LET index == contents[x]
             parentPath == Inner(Property(index, "parentPath"))
             encrypted == Property(index, "encrypted") = "true"
             k == FileAt(r.jsonMapFileList, parentPath)
         IN LoadJMIndexesCountingOne(
                [r EXCEPT
                    !.fileIndexes =
                        SetIndex(@, JMFileIndex(Inner(Property(index, "path")),
                                                parentPath, encrypted)),
                    !.jsonMapFileList =
                        IF k = 0
                        THEN Append(@, JSONMapFile(parentPath, 1, encrypted))
                        ELSE @],
                contents, x + 1)

\* The loop of load() over the parsed master from its x-th element on.
RECURSIVE LoadJMIndexes(_, _, _)
LoadJMIndexes(r, contents, x) ==
    IF x > Len(contents) THEN r
    ELSE LET index == contents[x]
             parentPath == Inner(Property(index, "parentPath"))
             encrypted == Property(index, "encrypted") = "true"
             k == FileAt(r.jsonMapFileList, parentPath)
         IN LoadJMIndexes(
                [r EXCEPT
                    !.fileIndexes =
                        SetIndex(@, JMFileIndex(Inner(Property(index, "path")),
                                                parentPath, encrypted)),
                    !.jsonMapFileList =
                        IF k = 0
                        THEN Append(@, JSONMapFile(parentPath, 1, encrypted))
                        ELSE [@ EXCEPT ![k].count = @ + 1]],
                contents, x + 1)

\* load(): the properties are preset, and filled from the master if the
\* cached file source returns one.
JMLoad(r) ==
    LET g == CachedGetFile(r.c, r.b, JMMaster, TRUE)
        preset == [r EXCEPT !.loaded = TRUE, !.fileIndexes = <<>>,
                            !.jsonMapFileList = <<>>, !.c = g.c]
    IN IF Truthy(g.result) THEN LoadJMIndexes(preset, ParseArray(g.result), 1)
       ELSE preset

\* resolveFileIndex up to the lookup: the lazy load.
JMResolve(r) == IF r.loaded THEN r ELSE JMLoad(r)

\* save().
JMSave(r) ==
    LET w == CachedPutFile(r.c, r.b, JMMaster,
                           StringifyArray([i \in 1..Len(r.fileIndexes) |->
                                              StoredJMFileIndex(r.fileIndexes[i])]),
                           TRUE, r.autoFlushing)
    IN [r EXCEPT !.c = w.c, !.b = w.b, !.writes = Append(@, JMMaster)]

\* addContents(jmFile, fileContent, path, newContent), jmFile being the k-th
\* of the list.
JMAddContents(r, k, fileContent, name, newContent) ==
    LET jmFile == r.jsonMapFileList[k]
        jsContent == SetProperty(fileContent, name, Quote(newContent))
        w == CachedPutFile(r.c, r.b, jmFile.path, StringifyObject(jsContent),
                           jmFile.encrypted, r.autoFlushing)
    IN [r EXCEPT !.c = w.c, !.b = w.b, !.writes = Append(@, jmFile.path),
                 !.fileIndexes =
                     SetIndex(@, JMFileIndex(name, jmFile.path, jmFile.encrypted)),
                 !.jsonMapFileList[k].count = Len(jsContent)]

\* putJSONImpl(path, content, encrypt).
JMPutJSONImpl(r, name, content, encrypt) ==
    LET list == r.jsonMapFileList
        fits == {k \in 1..Len(list) :
                    list[k].encrypted = encrypt /\ list[k].count < MaxItems}
    IN IF fits = {}
       THEN LET jmFile == JSONMapFile(Container(r.created + 1), 0, encrypt)
            IN JMAddContents(
                   [r EXCEPT !.created = @ + 1,
                             !.jsonMapFileList = Append(@, jmFile)],
                   Len(list) + 1, ParseObject("{}"), name, content)
       ELSE LET k == CHOOSE j \in fits : \A i \in fits : j <= i
                g == CachedGetFile(r.c, r.b, list[k].path, list[k].encrypted)
            IN JMAddContents([r EXCEPT !.c = g.c], k,
                             ParseObject(IF Truthy(g.result) THEN g.result ELSE "{}"),
                             name, content)

\* JSONMapFileSource.getFile: [r, result].
JMGet(r0, name) ==
    LET r == JMResolve(r0)
        at == IndexAt(r.fileIndexes, name)
    IN IF at = 0 THEN [r |-> r, result |-> Null]
       ELSE LET index == r.fileIndexes[at]
                g == CachedGetFile(r.c, r.b, index.path, index.encrypted)
                jContents == ParseContainer(g.result)
            IN [r |-> [r EXCEPT !.c = g.c],
                result |-> IF Truthy(g.result) /\ PropertyAt(jContents, name) # 0
                           THEN Inner(Property(jContents, name))
                           ELSE Null]

\* JSONMapFileSource.putFile.
JMPut(r0, name, content, encrypt) ==
    LET r == JMResolve(r0)
        at == IndexAt(r.fileIndexes, name)
    IN IF at = 0 THEN JMSave(JMPutJSONImpl(r, name, content, encrypt))
       ELSE LET k == FileAt(r.jsonMapFileList, r.fileIndexes[at].path)
                jmFile == r.jsonMapFileList[k]
                g == CachedGetFile(r.c, r.b, jmFile.path, jmFile.encrypted)
            IN JMSave(JMAddContents([r EXCEPT !.c = g.c], k,
                                    ParseContainer(g.result), name, content))

\* JSONMapFileSource.deleteFile.
JMDelete(r0, name) ==
    LET r == JMResolve(r0)
        at == IndexAt(r.fileIndexes, name)
    IN IF at = 0 THEN r
       ELSE LET k == FileAt(r.jsonMapFileList, r.fileIndexes[at].path)
                jmFile == r.jsonMapFileList[k]
                g == CachedGetFile(r.c, r.b, jmFile.path, jmFile.encrypted)
                jContents == DeleteProperty(ParseContainer(g.result), name)
                count == Len(jContents)
                w == IF count # 0
                     THEN CachedPutFile(g.c, r.b, jmFile.path,
                                        StringifyObject(jContents),
                                        jmFile.encrypted, r.autoFlushing)
                     ELSE CachedDeleteFile(g.c, r.b, jmFile.path, r.autoFlushing)
            IN JMSave([r EXCEPT
                          !.c = w.c, !.b = w.b, !.writes = Append(@, jmFile.path),
                          !.jsonMapFileList =
                              IF count # 0 THEN [@ EXCEPT ![k].count = count]
                              ELSE SubSeq(@, 1, k - 1) \o SubSeq(@, k + 1, Len(@)),
                          !.fileIndexes = DeleteIndex(@, name)])

\* JSONMapFileSource.listFiles without options: the fileIndexes getter
\* throws while nothing is loaded.
JMList(r) ==
    IF ~r.loaded THEN [res |-> "Error", names |-> <<>>]
    ELSE [res |-> "ok",
          names |-> [i \in 1..Len(r.fileIndexes) |-> r.fileIndexes[i].name]]

(* ---------------------- ReadWriteLockFileSource ------------------------- *)
\* new ReadWriteLockFileSource(fileSource): no Lockable and no queue yet. A
\* path without a queue is a path with an empty one (getPendingQueue).
NewReadWriteLock ==
    [fileSource |-> NoFiles,
     lockables |-> [p \in Paths |-> <<>>],
     pending |-> [p \in Paths |-> <<>>],
     running |-> {}]

\* The Operation doLock makes; kind and content stand for its
\* criticalSection (the backend call it makes), n tells the calls apart.
Operation(n, kind, path, content) ==
    [n |-> n, kind |-> kind, path |-> path, content |-> content]

\* Variant that asks for a Read lock whatever the call.
LockLevelRead(kind) == Read

\* Variant that asks for a Write lock whatever the call.
LockLevelWrite(kind) == Write

\* The lockLevel getFile, getFileUrl, putFile and deleteFile hand to doLock.
LockLevelOf(kind) == IF kind \in {"get", "url"} THEN Read ELSE Write

Event(ev, n) == [ev |-> ev, n |-> n]

\* processPending(path): while the head of the queue gets its lock, take it
\* off the queue and begin its criticalSection, which calls the backend at
\* once; stop at the first head whose lock is refused. The uuid of the new
\* lock is modelled by the number of the operation. [r, log] is the
\* ReadWriteLockFileSource after and the log with the backend calls begun.
RECURSIVE ProcessPending(_, _, _)
ProcessPending(r, log, path) ==
    IF r.pending[path] = <<>> THEN [r |-> r, log |-> log]
    ELSE LET next == Head(r.pending[path])
             lb == IF r.lockables[next.path] = <<>> THEN NewLockable
                   ELSE r.lockables[next.path][1]
             a == CreateAndAcquire(lb, LockLevelOf(next.kind), next.n)
         IN IF ~a.ok
            THEN [r |-> [r EXCEPT !.lockables[next.path] = <<lb>>], log |-> log]
            ELSE ProcessPending(
                     [r EXCEPT !.lockables[next.path] = <<a.lb>>,
                               !.pending[path] = Tail(@),
                               !.running = @ \cup {[op |-> next, lock |-> a.lock]}],
                     Append(log, Event("start", next.n)),
                     path)

\* MockFileSource.listFiles without options: the names in insertion order.
BackendListFiles(b) == [res |-> "ok", names |-> b.order]

\* ReadWriteLockFileSource.listFiles, entered with depth calls on the
\* stack: it calls this.listFiles (itself, not the backend's) before its
\* first await, and so on until the call stack is full; the RangeError
\* thrown there rejects every one of the nested calls.
RECURSIVE RWListFilesFrom(_, _)
RWListFilesFrom(b, depth) ==
    IF depth >= MaxStack THEN [res |-> "RangeError", names |-> <<>>]
    ELSE RWListFilesFrom(b, depth + 1)

\* What the backend call of an operation does once its delay is over:
\* [b, result] is the backend after and the value the call resolves to.
BackendCall(b, op) ==
    IF op.kind = "get" THEN [b |-> b, result |-> BackendGetFile(b, op.path)]
    ELSE IF op.kind = "url" THEN [b |-> b, result |-> BackendGetFileUrl(b, op.path)]
    ELSE IF op.kind = "put"
    THEN [b |-> BackendPutFile(b, op.path, op.content), result |-> Undefined]
    ELSE [b |-> BackendDeleteFile(b, op.path), result |-> Undefined]

(* ---------------------- TransactionFileSource --------------------------- *)
\* Variant of the constructor that leaves the cache auto-flushing (the
\* default of CachedFileSource).
AutoFlushingOn == TRUE

\* new CachedFileSource(fileSource, { autoFlushing: false }).
AutoFlushing == FALSE

VARIABLES
    backend,     \* the wrapped FileSource (MockFileSource.files)
    fileSource,  \* TransactionFileSource.fileSource, the CachedFileSource
    lockables,   \* TransactionFileSource.lockables: <<>> where a path has no
                 \* Lockable, <<lb>> where it has one
    listLocks,   \* TransactionFileSource.listLocks
    tx,          \* the Transaction objects: status, locks, listLock
    hist,        \* per transaction: what it did so far (observation only)
    lockable,    \* a Lockable used directly by a client of its own
    tokens,      \* the locks that client was handed so far
    cached,      \* a CachedFileSource used directly by a client of its own:
                 \* its state c, its backend b, its option autoFlushing,
                 \* and the backend writes its flush(path) calls wait for
    seen,        \* what that client saw of its calls (observation only)
    mem,         \* a MemFileSource used directly: the keys of its files
                 \* object, in the order Object.keys lists them
    listing,     \* the last listFiles call made on it and what it returned
    rw,          \* a ReadWriteLockFileSource over a backend of its own: its
                 \* fileSource, lockables and pending, and the operations
                 \* whose criticalSection waits for the backend (running)
    trace,       \* the calls made on it, the order in which they were issued
                 \* and their backend calls began and ended, and what the
                 \* calls returned (observation only)
    ra,          \* a RandomAccessFileSource over a CachedFileSource c and a
                 \* MockFileSource b of its own
    raSeen,      \* what its client put last under each name and saw of its
                 \* last call (observation only)
    jm,          \* a JSONMapFileSource over a CachedFileSource c and a
                 \* MockFileSource b of its own
    jmSeen       \* what its client put last under each name and saw of its
                 \* last call (observation only)

storeVars == <<backend, fileSource, lockables, listLocks, tx, hist>>
lockVars == <<lockable, tokens>>
cacheVars == <<cached, seen>>
memVars == <<mem, listing>>
rwVars == <<rw, trace>>
packedVars == <<ra, raSeen, jm, jmSeen>>
\* The variables of the components used on their own, beside the
\* TransactionFileSource and the Lockable.
otherVars == <<cacheVars, memVars, rwVars, packedVars>>
vars ==
    <<backend, fileSource, lockables, listLocks, tx, hist, lockable, tokens,
      cached, seen, mem, listing, rw, trace, ra, raSeen, jm, jmSeen>>

\* Transaction status: "none" (not created), "active" (isExpired = false),
\* "committing" (end() ran, commit awaits its flushes), "ended".  flushes
\* are the backend writes of the commit that have not completed yet.
IsExpired(txr) == txr.status \in {"committing", "ended"}

\* A Transaction after its constructor.  end() leaves locks and listLock in
\* the object: an ended transaction keeps the record of the locks it held.
NewTransaction ==
    [status |-> "active",
     locks |-> [p \in Paths |-> NoLock],
     listLock |-> [read |-> NoLock, write |-> NoLock],
     flushes |-> [p \in Paths |-> NoOp]]

LockableAt(lbs, path) == IF lbs[path] = <<>> THEN NewLockable ELSE lbs[path][1]

\* negotiateReadLock: ok = FALSE is the thrown lock error.
NegotiateReadLock(lbs, txr, path, id) ==
    IF txr.locks[path] = NoLock
    THEN LET r == CreateAndAcquire(LockableAt(lbs, path), Read, id)
         IN [ok |-> r.ok,
             lockables |-> [lbs EXCEPT ![path] = <<r.lb>>],
             tx |-> IF r.ok THEN [txr EXCEPT !.locks[path] = r.lock] ELSE txr]
    ELSE [ok |-> TRUE, lockables |-> lbs, tx |-> txr]

\* negotiateWriteLock.
NegotiateWriteLock(lbs, txr, path, id) ==
    LET lb == LockableAt(lbs, path)
        r == IF txr.locks[path] = NoLock
             THEN CreateAndAcquire(lb, Write, id)
             ELSE Upgrade(lb, txr.locks[path])
    IN [ok |-> r.ok,
        lockables |-> [lbs EXCEPT ![path] = <<r.lb>>],
        tx |-> IF r.ok THEN [txr EXCEPT !.locks[path] = r.lock] ELSE txr]

\* this.listLocks.some(l => l.level == level && l.id != exceptId); no lock
\* has id 0, so exceptId = 0 is the test on the level alone.
SomeLock(ll, level, exceptId) ==
    \E i \in 1..Len(ll) : ll[i].level = level /\ ll[i].id # exceptId

\* Variant of negotiateListReadLock that never refuses.
NegotiateListReadLockUnchecked(ll, txr, id) ==
    LET lock == IF txr.listLock.read # NoLock THEN txr.listLock.read
                ELSE txr.listLock.write
    IN IF lock = NoLock
       THEN [ok |-> TRUE, listLocks |-> Append(ll, Lock(Read, id)),
             tx |-> [txr EXCEPT !.listLock.read = Lock(Read, id)]]
       ELSE IF lock.level = Write
       THEN [ok |-> TRUE, listLocks |-> Append(ll, Lock(Read, lock.id)),
             tx |-> [txr EXCEPT !.listLock.read = Lock(Read, lock.id)]]
       ELSE [ok |-> TRUE, listLocks |-> ll, tx |-> txr]

\* Variant of negotiateListReadLock that counts the transaction's own
\* list-write lock among the write locks that refuse a read.
NegotiateListReadLockOwnWrite(ll, txr, id) ==
    LET lock == IF txr.listLock.read # NoLock THEN txr.listLock.read
                ELSE txr.listLock.write
    IN IF lock = NoLock
       THEN IF SomeLock(ll, Write, 0)
            THEN [ok |-> FALSE, listLocks |-> ll, tx |-> txr]
            ELSE [ok |-> TRUE, listLocks |-> Append(ll, Lock(Read, id)),
                  tx |-> [txr EXCEPT !.listLock.read = Lock(Read, id)]]
       ELSE IF lock.level = Write
       THEN IF SomeLock(ll, Write, 0)
            THEN [ok |-> FALSE, listLocks |-> ll, tx |-> txr]
            ELSE [ok |-> TRUE, listLocks |-> Append(ll, Lock(Read, lock.id)),
                  tx |-> [txr EXCEPT !.listLock.read = Lock(Read, lock.id)]]
       ELSE [ok |-> TRUE, listLocks |-> ll, tx |-> txr]

\* negotiateListReadLock.
NegotiateListReadLock(ll, txr, id) ==
    LET lock == IF txr.listLock.read # NoLock THEN txr.listLock.read
                ELSE txr.listLock.write
    IN IF lock = NoLock
       THEN IF SomeLock(ll, Write, 0)
            THEN [ok |-> FALSE, listLocks |-> ll, tx |-> txr]
            ELSE [ok |-> TRUE, listLocks |-> Append(ll, Lock(Read, id)),
                  tx |-> [txr EXCEPT !.listLock.read = Lock(Read, id)]]
       ELSE IF lock.level = Write
       THEN IF SomeLock(ll, Write, lock.id)
            THEN [ok |-> FALSE, listLocks |-> ll, tx |-> txr]
            ELSE [ok |-> TRUE, listLocks |-> Append(ll, Lock(Read, lock.id)),
                  tx |-> [txr EXCEPT !.listLock.read = Lock(Read, lock.id)]]
       ELSE [ok |-> TRUE, listLocks |-> ll, tx |-> txr]

\* Variant of negotiateListWriteLock that refuses whenever any list lock of
\* another transaction is outstanding, a list-write lock included.
NegotiateListWriteLockExclusive(ll, txr, id) ==
    LET lock == IF txr.listLock.write # NoLock THEN txr.listLock.write
                ELSE txr.listLock.read
    IN IF lock = NoLock
       THEN IF ll # <<>>
            THEN [ok |-> FALSE, listLocks |-> ll, tx |-> txr]
            ELSE [ok |-> TRUE, listLocks |-> Append(ll, Lock(Write, id)),
                  tx |-> [txr EXCEPT !.listLock.write = Lock(Write, id)]]
       ELSE IF lock.level = Read
       THEN IF SomeLock(ll, Read, lock.id)
            THEN [ok |-> FALSE, listLocks |-> ll, tx |-> txr]
            ELSE [ok |-> TRUE, listLocks |-> Append(ll, Lock(Write, lock.id)),
                  tx |-> [txr EXCEPT !.listLock.write = Lock(Write, lock.id)]]
       ELSE [ok |-> TRUE, listLocks |-> ll, tx |-> txr]

\* negotiateListWriteLock.
NegotiateListWriteLock(ll, txr, id) ==
    LET lock == IF txr.listLock.write # NoLock THEN txr.listLock.write
                ELSE txr.listLock.read
    IN IF lock = NoLock
       THEN IF SomeLock(ll, Read, 0)
            THEN [ok |-> FALSE, listLocks |-> ll, tx |-> txr]
            ELSE [ok |-> TRUE, listLocks |-> Append(ll, Lock(Write, id)),
                  tx |-> [txr EXCEPT !.listLock.write = Lock(Write, id)]]
       ELSE IF lock.level = Read
       THEN IF SomeLock(ll, Read, lock.id)
            THEN [ok |-> FALSE, listLocks |-> ll, tx |-> txr]
            ELSE [ok |-> TRUE, listLocks |-> Append(ll, Lock(Write, lock.id)),
                  tx |-> [txr EXCEPT !.listLock.write = Lock(Write, lock.id)]]
       ELSE [ok |-> TRUE, listLocks |-> ll, tx |-> txr]

\* The lock negotiation of putFileWithTransaction and
\* deleteFileWithTransaction: the file's write lock, then the list-write
\* lock.  What the first acquired stays when the second throws.
NegotiateForWrite(lbs, ll, txr, path, id) ==
    LET w == NegotiateWriteLock(lbs, txr, path, id)
        l == NegotiateListWriteLock(ll, w.tx, id)
    IN IF ~w.ok
       THEN [ok |-> FALSE, lockables |-> w.lockables, listLocks |-> ll, tx |-> w.tx]
       ELSE [ok |-> l.ok, lockables |-> w.lockables, listLocks |-> l.listLocks,
             tx |-> l.tx]

\* The paths of Object.keys(this.locks) in some fixed order.
RECURSIVE ReleaseFileLocks(_, _, _)
ReleaseFileLocks(lbs, txr, paths) ==
    IF paths = {} THEN lbs
    ELSE LET path == CHOOSE p \in paths : TRUE
             lb == Release(LockableAt(lbs, path), txr.locks[path])
             lbs1 == IF txr.locks[path] = NoLock \/ lbs[path] = <<>> THEN lbs
                     ELSE [lbs EXCEPT ![path] = IF IsLocked(lb) THEN <<lb>> ELSE <<>>]
         IN ReleaseFileLocks(lbs1, txr, paths \ {path})

\* Variant of the release that leaves listLocks as it is.
ReleaseAllButListLocks(lbs, ll, txr) ==
    [lockables |-> ReleaseFileLocks(lbs, txr, Paths), listLocks |-> ll]

\* The second half of commit and of abort: every lock end() returned is
\* released, a Lockable left unlocked is deleted, and the transaction's list
\* locks are spliced out of listLocks (matched by id and level).
ReleaseAll(lbs, ll, txr) ==
    LET ll1 == IF txr.listLock.read = NoLock THEN ll
               ELSE RemoveFirst(ll, txr.listLock.read.id, {Read})
        ll2 == IF txr.listLock.write = NoLock THEN ll1
               ELSE RemoveFirst(ll1, txr.listLock.write.id, {Write})
    IN [lockables |-> ReleaseFileLocks(lbs, txr, Paths), listLocks |-> ll2]

(* ------------------------------ observation ---------------------------- *)
\* What the cached file source serves for a path once a first getFile has
\* brought it in: the result of the second of two consecutive getFile calls.
Serves(c, b, path) ==
    CachedGetFile(CachedGetFile(c, b, path, FALSE).c, b, path, FALSE).result

\* hist[t].wrote[path]: the last putFile / deleteFile the transaction
\* completed on the path, with what the path served right before the
\* transaction's first write to it.
NoWrite == [op |-> "none", content |-> Null, before |-> Null]

\* hist[t]: the transaction's writes, the backend writes issued on its
\* behalf and, for a transaction run by transact, how the transact settled
\* ("ok" or the error it threw).
NoHist ==
    [wrote |-> [p \in Paths |-> NoWrite],
     bops |-> [p \in Paths |-> <<>>],
     settled |-> "none"]

RecordWrite(h, c, b, path, op, content, ops) ==
    [h EXCEPT !.wrote[path] =
                  [op |-> op, content |-> content,
                   before |-> IF @.op = "none" THEN Serves(c, b, path) ELSE @.before],
              !.bops[path] = @ \o ops]

(* ------------------- the calls made through a Transaction --------------- *)
\* Each call is a function of the state it finds: res is how it ends ("ok",
\* "LockError" for "Failed to acquire lock.", "Expired" for "Transactions
\* cannot be reused."), the other fields are the state it leaves.
Outcome(res, lbs, ll, txr, c, b, ops) ==
    [res |-> res, lockables |-> lbs, listLocks |-> ll, tx |-> txr,
     fileSource |-> c, backend |-> b, ops |-> ops]

\* Variant of Transaction.getFile without the isExpired check.
TxGetFileUnchecked(lbs, ll, txr, c, b, id, path, decrypt) ==
    LET n == NegotiateReadLock(lbs, txr, path, id)
    IN IF ~n.ok THEN Outcome("LockError", n.lockables, ll, n.tx, c, b, <<>>)
       ELSE Outcome("ok", n.lockables, ll, n.tx,
                    CachedGetFile(c, b, path, decrypt).c, b, <<>>)

\* Transaction.getFile -> getFileWithTransaction.
TxGetFile(lbs, ll, txr, c, b, id, path, decrypt) ==
    IF IsExpired(txr) THEN Outcome("Expired", lbs, ll, txr, c, b, <<>>)
    ELSE LET n == NegotiateReadLock(lbs, txr, path, id)
         IN IF ~n.ok THEN Outcome("LockError", n.lockables, ll, n.tx, c, b, <<>>)
            ELSE Outcome("ok", n.lockables, ll, n.tx,
                         CachedGetFile(c, b, path, decrypt).c, b, <<>>)

\* Transaction.getFileUrl -> getFileUrlWithTransaction.
TxGetFileUrl(lbs, ll, txr, c, b, id, path) ==
    IF IsExpired(txr) THEN Outcome("Expired", lbs, ll, txr, c, b, <<>>)
    ELSE LET n == NegotiateReadLock(lbs, txr, path, id)
         IN IF ~n.ok THEN Outcome("LockError", n.lockables, ll, n.tx, c, b, <<>>)
            ELSE Outcome("ok", n.lockables, ll, n.tx,
                         CachedGetFileUrl(c, b, path).c, b, <<>>)

\* Transaction.putFile -> putFileWithTransaction.
TxPutFile(lbs, ll, txr, c, b, id, path, content, encrypt) ==
    IF IsExpired(txr) THEN Outcome("Expired", lbs, ll, txr, c, b, <<>>)
    ELSE LET n == NegotiateForWrite(lbs, ll, txr, path, id)
             w == CachedPutFile(c, b, path, content, encrypt, AutoFlushing)
         IN IF ~n.ok
            THEN Outcome("LockError", n.lockables, n.listLocks, n.tx, c, b, <<>>)
            ELSE Outcome("ok", n.lockables, n.listLocks, n.tx, w.c, w.b, w.ops)

\* Transaction.deleteFile -> deleteFileWithTransaction.
TxDeleteFile(lbs, ll, txr, c, b, id, path) ==
    IF IsExpired(txr) THEN Outcome("Expired", lbs, ll, txr, c, b, <<>>)
    ELSE LET n == NegotiateForWrite(lbs, ll, txr, path, id)
             w == CachedDeleteFile(c, b, path, AutoFlushing)
         IN IF ~n.ok
            THEN Outcome("LockError", n.lockables, n.listLocks, n.tx, c, b, <<>>)
            ELSE Outcome("ok", n.lockables, n.listLocks, n.tx, w.c, w.b, w.ops)

\* Transaction.listFiles -> listFilesWithTransaction (no options).
TxListFiles(lbs, ll, txr, c, b, id) ==
    IF IsExpired(txr) THEN Outcome("Expired", lbs, ll, txr, c, b, <<>>)
    ELSE LET n == NegotiateListReadLock(ll, txr, id)
         IN IF ~n.ok THEN Outcome("LockError", lbs, n.listLocks, n.tx, c, b, <<>>)
            ELSE Outcome("ok", lbs, n.listLocks, n.tx,
                         CachedListFiles(c, b).c, b, <<>>)

(* ------------------------------- actions -------------------------------- *)
\* The backends the file source may be constructed over: files at the paths
\* P holding contents of C.
Backends(P, C) ==
    {b \in [files : [Paths -> C \cup {Undefined}],
            order : {<<>>} \cup {<<p>> : p \in P}
                    \cup {<<p, q>> : p, q \in P}] :
        /\ \A p \in Paths :
              (b.files[p] # Undefined) <=> (\E i \in 1..Len(b.order) : b.order[i] = p)
        /\ Len(b.order) = Cardinality({p \in Paths : b.files[p] # Undefined})}

\* seen: the last call made on the CachedFileSource used directly (call,
\* path), what it returned (result of getFile, listed of listFiles), the
\* backend writes it issued by path, and per path the latest putFile or
\* deleteFile since the last flush().
NoIssue == [p \in Paths |-> <<>>]
NoSeen ==
    [call |-> "none", path |-> Null, result |-> Null, listed |-> {},
     issued |-> NoIssue, pending |-> [p \in Paths |-> NoOp]]

\* listing: no listFiles call yet on the files the MemFileSource holds.
NoListing == [called |-> FALSE, pathFilter |-> <<>>, accepted |-> {}, result |-> <<>>]

\* The state after new TransactionFileSource(backend).
InitStore(P, C) ==
    /\ backend \in Backends(P, C)
    /\ fileSource = NewCache
    /\ lockables = [p \in Paths |-> <<>>]
    /\ listLocks = <<>>
    /\ tx = [t \in Tx |-> [NewTransaction EXCEPT !.status = "none"]]
    /\ hist = [t \in Tx |-> NoHist]

\* The state after new Lockable().
InitLockable ==
    /\ lockable = NewLockable
    /\ tokens = {}

\* The state after new CachedFileSource(b, { autoFlushing }).
InitCached(B, A) ==
    /\ cached \in {[c |-> NewCache, b |-> b, autoFlushing |-> a,
                     flushing |-> [p \in Paths |-> NoOp]] : b \in B, a \in A}
    /\ seen = NoSeen

\* The state after new MemFileSource().
InitMem ==
    /\ mem = <<>>
    /\ listing = NoListing

\* The result of a call that has not returned yet.
Unsettled == "unsettled"
\* What the last listFiles call came to: nothing yet ("none"), the names
\* it returned ("ok"), or the error it rejected with.
NoListed == [res |-> "none", names |-> <<>>]
NoTrace ==
    [issued |-> <<>>, log |-> <<>>,
     result |-> [n \in 1..MaxOps |-> Unsettled], listed |-> NoListed]

\* The state after new ReadWriteLockFileSource(new MockFileSource(...)).
InitReadWriteLock ==
    /\ rw = NewReadWriteLock
    /\ trace = NoTrace

\* The names and the contents the clients of the packed stores use.
Names == {"file1", "file2"}
JMNames == Names \cup {"file3"}

\* What a client of a packed store has seen: the content it put last under
\* each name (null: none, or deleted since), and what its last call came to
\* if that was a listFiles call, with whether the store had loaded its
\* master when the call was made.
NotListed == [res |-> "none", names |-> <<>>, loaded |-> FALSE]
NoPackedSeen(N) == [put |-> [k \in N |-> Null], listed |-> NotListed]

\* The state after new RandomAccessFileSource(new CachedFileSource(new
\* MockFileSource(), { autoFlushing }), { maxSize }), and likewise for the
\* JSONMapFileSource.
InitPacked(RA, JM) ==
    /\ ra \in {NewRandomAccess(a) : a \in RA}
    /\ raSeen = NoPackedSeen(Names)
    /\ jm \in {NewJSONMap(a) : a \in JM}
    /\ jmSeen = NoPackedSeen(JMNames)

\* The state after the constructors, the TransactionFileSource over one of
\* the backends with files at the paths P holding contents of C.
InitOver(P, C) ==
    /\ InitStore(P, C)
    /\ InitLockable
    /\ InitCached({NoFiles}, {TRUE})
    /\ InitMem
    /\ InitReadWriteLock
    /\ InitPacked({FALSE}, {FALSE})

\* The uuid a transaction's new lock gets is not held by any lock that is
\* still outstanding: the slot of an ended transaction is taken by a new
\* Transaction only when none of its ids is left in a Lockable or listLocks.
IdInUse(id) ==
    \/ \E p \in Paths : /\ lockables[p] # <<>>
                        /\ \/ lockables[p][1].writeLock.id = id
                           \/ HasReader(lockables[p][1], id)
    \/ \E i \in 1..Len(listLocks) : listLocks[i].id = id

\* createTransaction().
CreateTransaction(t) ==
    /\ tx[t].status \in {"none", "ended"}
    /\ ~IdInUse(t)
    /\ tx' = [tx EXCEPT ![t] = NewTransaction]
    /\ hist' = [hist EXCEPT ![t] = NoHist]
    /\ UNCHANGED <<backend, fileSource, lockables, listLocks, lockVars, otherVars>>

\* The state a call leaves.
Leaves(t, o) ==
    /\ lockables' = o.lockables
    /\ listLocks' = o.listLocks
    /\ tx' = [tx EXCEPT ![t] = o.tx]
    /\ fileSource' = o.fileSource
    /\ backend' = o.backend
    /\ UNCHANGED <<lockVars, otherVars>>

Exists(t) == tx[t].status # "none"

GetFile(t, path, decrypt) ==
    /\ Exists(t)
    /\ LET o == TxGetFile(lockables, listLocks, tx[t], fileSource, backend,
                          t, path, decrypt)
       IN Leaves(t, o)
    /\ UNCHANGED hist

GetFileUrl(t, path) ==
    /\ Exists(t)
    /\ LET o == TxGetFileUrl(lockables, listLocks, tx[t], fileSource, backend,
                             t, path)
       IN Leaves(t, o)
    /\ UNCHANGED hist

PutFile(t, path, content, encrypt) ==
    /\ Exists(t)
    /\ LET o == TxPutFile(lockables, listLocks, tx[t], fileSource, backend,
                          t, path, content, encrypt)
       IN /\ Leaves(t, o)
          /\ hist' = IF o.res = "ok"
                     THEN [hist EXCEPT ![t] = RecordWrite(@, fileSource, backend,
                                               path, "put", content, o.ops)]
                     ELSE hist

DeleteFile(t, path) ==
    /\ Exists(t)
    /\ LET o == TxDeleteFile(lockables, listLocks, tx[t], fileSource, backend,
                             t, path)
       IN /\ Leaves(t, o)
          /\ hist' = IF o.res = "ok"
                     THEN [hist EXCEPT ![t] = RecordWrite(@, fileSource, backend,
                                               path, "delete", Null, o.ops)]
                     ELSE hist

ListFiles(t) ==
    /\ Exists(t)
    /\ Leaves(t, TxListFiles(lockables, listLocks, tx[t], fileSource, backend, t))
    /\ UNCHANGED hist

\* Variant of the filter of commit and abort that picks the files whose
\* recorded lock is a Read lock.
ReadLocked(txr) == {p \in Paths : txr.locks[p].level = Read}

\* The files commit flushes and abort rolls back: those whose recorded lock
\* is a Write lock.
WriteLocked(txr) == {p \in Paths : txr.locks[p].level = Write}

\* Transaction.commit up to the first await: end() sets isExpired and
\* collects the locks; the flushes of the write-locked files are started.
CommitBegin(t) ==
    /\ tx[t].status = "active"
    /\ tx' = [tx EXCEPT ![t].status = "committing",
                        ![t].flushes = [p \in Paths |->
                            IF p \in WriteLocked(tx[t])
                            THEN FlushStart(fileSource, p) ELSE NoOp]]
    /\ UNCHANGED <<backend, fileSource, lockables, listLocks, hist, lockVars, otherVars>>

\* One flush(path) of a commit reaches the backend and settles.
CommitFlush(t, path) ==
    /\ tx[t].status = "committing"
    /\ tx[t].flushes[path] # NoOp
    /\ LET f == FlushSettle(fileSource, backend, path, tx[t].flushes[path])
       IN /\ fileSource' = f.c
          /\ backend' = f.b
    /\ hist' = [hist EXCEPT ![t].bops[path] = Append(@, tx[t].flushes[path])]
    /\ tx' = [tx EXCEPT ![t].flushes[path] = NoOp]
    /\ UNCHANGED <<lockables, listLocks, lockVars, otherVars>>

\* Variant of the wait that goes on as soon as one flush has settled.
SomeFlushed(txr) ==
    \/ \E p \in Paths : txr.flushes[p] = NoOp
    \/ WriteLocked(txr) = {}

\* await Promise.all(...) of the flushes: every one of them has settled.
AllFlushed(txr) == \A p \in Paths : txr.flushes[p] = NoOp

\* All flushes of the commit have settled: the locks are released.
CommitRelease(t) ==
    /\ tx[t].status = "committing"
    /\ AllFlushed(tx[t])
    /\ LET r == ReleaseAll(lockables, listLocks, tx[t])
       IN /\ lockables' = r.lockables
          /\ listLocks' = r.listLocks
    /\ tx' = [tx EXCEPT ![t].status = "ended"]
    /\ hist' = [hist EXCEPT ![t] = NoHist]
    /\ UNCHANGED <<backend, fileSource, lockVars, otherVars>>

\* The backend write of one flush(path) of a commit fails: flushOne rejects
\* before the modification is cleared, Promise.all rejects and commit()
\* rejects with the backend's error at its first await; the release of the
\* locks is not reached.
CommitFlushFails(t, path) ==
    /\ tx[t].status = "committing"
    /\ tx[t].flushes[path] # NoOp
    /\ tx' = [tx EXCEPT ![t].status = "ended", ![t].flushes[path] = NoOp]
    /\ hist' = [hist EXCEPT ![t] = [NoHist EXCEPT !.settled = "Error"]]
    /\ UNCHANGED <<backend, fileSource, lockables, listLocks, lockVars, otherVars>>

RECURSIVE AbortAll(_, _)
AbortAll(c, paths) ==
    IF paths = {} THEN c
    ELSE LET path == CHOOSE p \in paths : TRUE
         IN AbortAll(CachedAbortChanges(c, path), paths \ {path})

\* Transaction.abort: end(), abortChanges for every write-locked file, then
\* the release of all locks.  No backend call is awaited on the way.
Abort(t) ==
    /\ tx[t].status = "active"
    /\ fileSource' = AbortAll(fileSource, WriteLocked(tx[t]))
    /\ LET r == ReleaseAll(lockables, listLocks, tx[t])
       IN /\ lockables' = r.lockables
          /\ listLocks' = r.listLocks
    /\ tx' = [tx EXCEPT ![t].status = "ended"]
    /\ hist' = [hist EXCEPT ![t] = NoHist]
    /\ UNCHANGED <<backend, lockVars, otherVars>>

\* The flushes a commit starts, flush(path) for every path of paths, with
\* the backend writes they issue taken together.
RECURSIVE FlushAll(_, _, _)
FlushAll(c, b, paths) ==
    IF paths = {} THEN [c |-> c, b |-> b]
    ELSE LET path == CHOOSE p \in paths : TRUE
             f == CachedFlush(c, b, path)
         IN FlushAll(f.c, f.b, paths \ {path})

\* A lock end() returns names a path whose Lockable has been deleted:
\* lockable!.release(...) is called on undefined and the call rejects with
\* a TypeError.
ReleaseThrows(lbs, txr) ==
    \E p \in Paths : txr.locks[p] # NoLock /\ lbs[p] = <<>>

\* Transaction.commit on a transaction that has ended already: commit has
\* no isExpired check, and end() returns the locks the object still
\* records.  flush(path) reads modifications[path] when it is called, so
\* what this commit flushes is decided when it begins; the call is taken as
\* one step.
CommitExpired(t) ==
    /\ tx[t].status = "ended"
    /\ LET f == FlushAll(fileSource, backend, WriteLocked(tx[t]))
       IN /\ fileSource' = f.c
          /\ backend' = f.b
    /\ LET r == ReleaseAll(lockables, listLocks, tx[t])
       IN /\ lockables' = r.lockables
          /\ listLocks' = r.listLocks
    /\ UNCHANGED <<tx, hist, lockVars, otherVars>>

\* Transaction.abort on a transaction that has ended already.
AbortExpired(t) ==
    /\ tx[t].status = "ended"
    /\ fileSource' = AbortAll(fileSource, WriteLocked(tx[t]))
    /\ LET r == ReleaseAll(lockables, listLocks, tx[t])
       IN /\ lockables' = r.lockables
          /\ listLocks' = r.listLocks
    /\ UNCHANGED <<backend, tx, hist, lockVars, otherVars>>

(* --------------- the FileSource calls made on the store ----------------- *)
\* transact(criticalBlock) around a block that has run to its end with the
\* transaction record txr, leaving the cache c and the backend b: the
\* commit of the transaction (its flushes and the release of its locks).
TransactCommit(lbs, ll, txr, c, b) ==
    LET f == FlushAll(c, b, WriteLocked(txr))
        r == ReleaseAll(lbs, ll, txr)
    IN Outcome("ok", r.lockables, r.listLocks, [txr EXCEPT !.status = "ended"],
               f.c, f.b, <<>>)

\* The catch block of transact after the block has thrown e: the abort of
\* the transaction, and e thrown again.
TransactAbort(lbs, ll, txr, c, b, e) ==
    LET r == ReleaseAll(lbs, ll, txr)
    IN Outcome(e, r.lockables, r.listLocks, [txr EXCEPT !.status = "ended"],
               AbortAll(c, WriteLocked(txr)), b, <<>>)

\* Variant of transact whose catch block commits.
TransactSettleCommitting(r) ==
    LET o == TransactCommit(r.lockables, r.listLocks, r.tx, r.fileSource,
                            r.backend)
    IN [o EXCEPT !.res = r.res]

\* transact once the block has ended as r: commit if it returned, abort and
\* rethrow if it threw. (v is r, evaluated once.)
TransactSettle(r) ==
    CHOOSE s \in
        {IF v.res = "ok"
         THEN TransactCommit(v.lockables, v.listLocks, v.tx, v.fileSource,
                             v.backend)
         ELSE TransactAbort(v.lockables, v.listLocks, v.tx, v.fileSource,
                            v.backend, v.res) : v \in {r}} : TRUE

\* The calls a block makes on its transaction, and a throw of its own.
BodyOp(kind, path, content) == [kind |-> kind, path |-> path, content |-> content]
BodyOps(P, C) ==
    {BodyOp(k, p, Null) : k \in {"get", "url", "delete"}, p \in P}
    \cup {BodyOp("put", p, c) : p \in P, c \in C}
    \cup {BodyOp("list", Null, Null), BodyOp("throw", Null, Null)}

\* The blocks given to transact: up to MaxBody calls, one after the other.
Bodies(P, C) == UNION {[1..n -> BodyOps(P, C)] : n \in 0..MaxBody}

\* One call of the block, made in the state the outcome o describes.
ApplyOp(o, id, op) ==
    CASE op.kind = "get" ->
             TxGetFile(o.lockables, o.listLocks, o.tx, o.fileSource, o.backend,
                       id, op.path, FALSE)
      [] op.kind = "url" ->
             TxGetFileUrl(o.lockables, o.listLocks, o.tx, o.fileSource,
                          o.backend, id, op.path)
      [] op.kind = "put" ->
             TxPutFile(o.lockables, o.listLocks, o.tx, o.fileSource, o.backend,
                       id, op.path, op.content, FALSE)
      [] op.kind = "delete" ->
             TxDeleteFile(o.lockables, o.listLocks, o.tx, o.fileSource,
                          o.backend, id, op.path)
      [] op.kind = "list" ->
             TxListFiles(o.lockables, o.listLocks, o.tx, o.fileSource,
                         o.backend, id)
      [] OTHER -> [o EXCEPT !.res = "Error"]

\* The block run to its end or to the first call that throws. (v is o,
\* evaluated once.)
RECURSIVE RunBody(_, _, _)
RunBody(o, id, body) ==
    CHOOSE r \in
        {IF body = <<>> \/ v.res # "ok" THEN v
         ELSE RunBody(ApplyOp(v, id, Head(body)), id, Tail(body)) : v \in {o}} :
        TRUE

\* TransactionFileSource.transact(criticalBlock).
Transact(lbs, ll, c, b, id, body) ==
    TransactSettle(RunBody(Outcome("ok", lbs, ll, NewTransaction, c, b, <<>>),
                           id, body))

\* TransactionFileSource.putFile: the block calls putFile on the
\* CachedFileSource itself and never uses its transaction.
StorePutFile(lbs, ll, c, b, path, content, encrypt) ==
    LET w == CachedPutFile(c, b, path, content, encrypt, AutoFlushing)
    IN TransactCommit(lbs, ll, NewTransaction, w.c, w.b)

\* TransactionFileSource.deleteFile.
StoreDeleteFile(lbs, ll, c, b, path) ==
    LET w == CachedDeleteFile(c, b, path, AutoFlushing)
    IN TransactCommit(lbs, ll, NewTransaction, w.c, w.b)

\* TransactionFileSource.listFiles (no options).
StoreListFiles(lbs, ll, c, b) ==
    TransactCommit(lbs, ll, NewTransaction, CachedListFiles(c, b).c, b)

\* TransactionFileSource.getFileUrl.
StoreGetFileUrl(lbs, ll, c, b, path) ==
    TransactCommit(lbs, ll, NewTransaction, CachedGetFileUrl(c, b, path).c, b)

\* The state a call on the store leaves; its transaction is dropped.
LeavesStore(o) ==
    /\ lockables' = o.lockables
    /\ listLocks' = o.listLocks
    /\ fileSource' = o.fileSource
    /\ backend' = o.backend
    /\ UNCHANGED <<tx, hist, lockVars, otherVars>>

\* transact(criticalBlock) with a block that keeps the transaction to
\* itself; t is the transaction it creates.
TransactCall(t, body) ==
    /\ tx[t].status \in {"none", "ended"}
    /\ ~IdInUse(t)
    /\ \E o \in {Transact(lockables, listLocks, fileSource, backend, t, body)} :
          /\ Leaves(t, o)
          /\ hist' = [hist EXCEPT ![t] = [NoHist EXCEPT !.settled = o.res]]

DirectPutFile(path, content, encrypt) ==
    LeavesStore(StorePutFile(lockables, listLocks, fileSource, backend,
                             path, content, encrypt))

DirectDeleteFile(path) ==
    LeavesStore(StoreDeleteFile(lockables, listLocks, fileSource, backend, path))

DirectListFiles ==
    LeavesStore(StoreListFiles(lockables, listLocks, fileSource, backend))

DirectGetFileUrl(path) ==
    LeavesStore(StoreGetFileUrl(lockables, listLocks, fileSource, backend, path))

(* --------------- a direct client of one CachedFileSource ---------------- *)
\* The client awaits each call before it makes the next.
CacheGetFile(path) ==
    /\ LET g == CachedGetFile(cached.c, cached.b, path, FALSE)
       IN /\ cached' = [cached EXCEPT !.c = g.c]
          /\ seen' = [seen EXCEPT !.call = "get", !.path = path,
                                  !.result = g.result, !.listed = {},
                                  !.issued = NoIssue]
    /\ UNCHANGED <<storeVars, lockVars, memVars, rwVars, packedVars>>

CachePutFile(path, content) ==
    /\ LET w == CachedPutFile(cached.c, cached.b, path, content, FALSE,
                              cached.autoFlushing)
       IN /\ cached' = [cached EXCEPT !.c = w.c, !.b = w.b]
          /\ seen' = [seen EXCEPT !.call = "put", !.path = path,
                                  !.result = Null, !.listed = {},
                                  !.issued = [NoIssue EXCEPT ![path] = w.ops],
                                  !.pending[path] = PutOp(content)]
    /\ UNCHANGED <<storeVars, lockVars, memVars, rwVars, packedVars>>

CacheDeleteFile(path) ==
    /\ LET w == CachedDeleteFile(cached.c, cached.b, path, cached.autoFlushing)
       IN /\ cached' = [cached EXCEPT !.c = w.c, !.b = w.b]
          /\ seen' = [seen EXCEPT !.call = "delete", !.path = path,
                                  !.result = Null, !.listed = {},
                                  !.issued = [NoIssue EXCEPT ![path] = w.ops],
                                  !.pending[path] = DeleteOp]
    /\ UNCHANGED <<storeVars, lockVars, memVars, rwVars, packedVars>>

CacheListFiles ==
    /\ LET l == CachedListFiles(cached.c, cached.b)
       IN /\ cached' = [cached EXCEPT !.c = l.c]
          /\ seen' = [seen EXCEPT !.call = "list", !.path = Null,
                                  !.result = Null, !.listed = l.result,
                                  !.issued = NoIssue]
    /\ UNCHANGED <<storeVars, lockVars, memVars, rwVars, packedVars>>

CacheFlush ==
    /\ LET f == CachedFlushAll(cached.c, cached.b)
       IN /\ cached' = [cached EXCEPT !.c = f.c, !.b = f.b]
          /\ seen' = [seen EXCEPT !.call = "flush", !.path = Null,
                                  !.result = Null, !.listed = {},
                                  !.issued = f.ops,
                                  !.pending = [p \in Paths |-> NoOp]]
    /\ UNCHANGED <<storeVars, lockVars, memVars, rwVars, packedVars>>

\* flush(path) up to its backend call, made without awaiting: flushOne
\* sends the write for the modification it finds and waits for the backend.
CacheFlushBegin(path) ==
    /\ cached.flushing[path] = NoOp
    /\ FlushStart(cached.c, path) # NoOp
    /\ cached' = [cached EXCEPT !.flushing[path] = FlushStart(cached.c, path)]
    /\ seen' = [seen EXCEPT !.call = "flush", !.path = path, !.result = Null,
                            !.listed = {}, !.issued = NoIssue]
    /\ UNCHANGED <<storeVars, lockVars, memVars, rwVars, packedVars>>

\* The backend call of that flush(path) ends: the write takes effect and the
\* flush clears the modification and the original of the path.
CacheFlushEnd(path) ==
    /\ cached.flushing[path] # NoOp
    /\ LET f == FlushSettle(cached.c, cached.b, path, cached.flushing[path])
       IN cached' = [cached EXCEPT !.c = f.c, !.b = f.b,
                                   !.flushing[path] = NoOp]
    /\ seen' = [seen EXCEPT !.call = "flushed", !.path = path,
                            !.result = Null, !.listed = {},
                            !.issued = [NoIssue EXCEPT
                                           ![path] = <<cached.flushing[path]>>],
                            !.pending[path] = NoOp]
    /\ UNCHANGED <<storeVars, lockVars, memVars, rwVars, packedVars>>

(* ---------------- a direct client of one MemFileSource ------------------ *)
\* putFile(key, ...): a new key is listed last, a key the object has keeps
\* its place.
MemPutFile(key) ==
    /\ \/ \E i \in 1..Len(mem) : mem[i] = key
       \/ Len(mem) < MaxKeys
    /\ mem' = IF \E i \in 1..Len(mem) : mem[i] = key THEN mem ELSE Append(mem, key)
    /\ listing' = NoListing
    /\ UNCHANGED <<storeVars, lockVars, cacheVars, rwVars, packedVars>>

MemDeleteFile(key) ==
    /\ mem' = SeqWithout(mem, key)
    /\ listing' = NoListing
    /\ UNCHANGED <<storeVars, lockVars, cacheVars, rwVars, packedVars>>

\* listFiles({ pathFilter, callback }).
MemListCall(pathFilter, accepted) ==
    /\ listing' = [called |-> TRUE, pathFilter |-> pathFilter,
                   accepted |-> accepted,
                   result |-> MemListFiles(mem, pathFilter, accepted)]
    /\ UNCHANGED <<storeVars, lockVars, cacheVars, rwVars, mem, packedVars>>

(* --------------- a client of the ReadWriteLockFileSource ---------------- *)
\* doLock(path, lockLevel, criticalSection): push the operation on the
\* queue of its path, then processPending(path). [r, t] is the
\* ReadWriteLockFileSource and the trace after.
DoLock(r, t, path, kind, content) ==
    LET op == Operation(Len(t.issued) + 1, kind, path, content)
        o == ProcessPending([r EXCEPT !.pending[path] = Append(@, op)],
                            Append(t.log, Event("issue", op.n)), path)
    IN [r |-> o.r, t |-> [t EXCEPT !.issued = Append(@, op), !.log = o.log]]

RWGetFile(path) ==
    /\ Len(trace.issued) < MaxOps
    /\ LET o == DoLock(rw, trace, path, "get", Null)
       IN rw' = o.r /\ trace' = o.t
    /\ UNCHANGED <<storeVars, lockVars, cacheVars, memVars, packedVars>>

RWGetFileUrl(path) ==
    /\ Len(trace.issued) < MaxOps
    /\ LET o == DoLock(rw, trace, path, "url", Null)
       IN rw' = o.r /\ trace' = o.t
    /\ UNCHANGED <<storeVars, lockVars, cacheVars, memVars, packedVars>>

RWPutFile(path, content) ==
    /\ Len(trace.issued) < MaxOps
    /\ LET o == DoLock(rw, trace, path, "put", content)
       IN rw' = o.r /\ trace' = o.t
    /\ UNCHANGED <<storeVars, lockVars, cacheVars, memVars, packedVars>>

RWDeleteFile(path) ==
    /\ Len(trace.issued) < MaxOps
    /\ LET o == DoLock(rw, trace, path, "delete", Null)
       IN rw' = o.r /\ trace' = o.t
    /\ UNCHANGED <<storeVars, lockVars, cacheVars, memVars, packedVars>>

\* listFiles() of the ReadWriteLockFileSource.
RWListFiles ==
    /\ trace' = [trace EXCEPT !.listed = RWListFilesFrom(rw.fileSource, 1)]
    /\ UNCHANGED <<storeVars, lockVars, cacheVars, memVars, rw, packedVars>>

\* The delay of the backend call of the running operation n is over (any of
\* the running ones, the delays being the backend's): the call does its
\* work and resolves, and the then-callback of processPending releases the
\* lock, resolves the client's call and processes the queue again.
Settle(n) ==
    /\ \E x \in rw.running : x.op.n = n
    /\ LET x == CHOOSE y \in rw.running : y.op.n = n
           c == BackendCall(rw.fileSource, x.op)
           p == x.op.path
           released ==
               [rw EXCEPT !.fileSource = c.b,
                          !.running = @ \ {x},
                          !.lockables[p] =
                              IF @ = <<>> THEN @ ELSE <<Release(@[1], x.lock)>>]
           o == ProcessPending(released,
                               Append(trace.log, Event("end", n)), p)
       IN /\ rw' = o.r
          /\ trace' = [trace EXCEPT !.log = o.log, !.result[n] = c.result]
    /\ UNCHANGED <<storeVars, lockVars, cacheVars, memVars, packedVars>>

\* Variant of the catch-callback that does not process the queue again.
OnRejectedLeavingQueue(r, log, x) ==
    [r |-> [r EXCEPT !.running = @ \ {x},
                     !.lockables[x.op.path] =
                         IF @ = <<>> THEN @ ELSE <<Release(@[1], x.lock)>>],
     log |-> Append(log, Event("fail", x.op.n))]

\* The catch-callback of processPending for the running operation x whose
\* criticalSection rejected: release the lock, reject the client's call,
\* process the queue of the path again.
OnRejected(r, log, x) ==
    ProcessPending(
        [r EXCEPT !.running = @ \ {x},
                  !.lockables[x.op.path] =
                      IF @ = <<>> THEN @ ELSE <<Release(@[1], x.lock)>>],
        Append(log, Event("fail", x.op.n)), x.op.path)

\* The error a failed backend call rejects with.
BackendError == "Error"

\* The backend call of the running operation n fails: the backend is left
\* as it is and the call rejects.
Fail(n) ==
    /\ \E x \in rw.running : x.op.n = n
    /\ \E o \in {OnRejected(rw, trace.log,
                             CHOOSE y \in rw.running : y.op.n = n)} :
          /\ rw' = o.r
          /\ trace' = [trace EXCEPT !.log = o.log, !.result[n] = BackendError]
    /\ UNCHANGED <<storeVars, lockVars, cacheVars, memVars, packedVars>>

(* -------------------- a direct client of one Lockable ------------------- *)
\* The id of the next lock createLock makes: one no handed-out lock has.
NextLockId == Cardinality({k.id : k \in tokens}) + 1

\* lockable.createAndAcquire(level); a refused request throws and hands
\* nothing out.
LockableCreateAndAcquire(level) ==
    /\ NextLockId <= MaxLocks
    /\ LET r == CreateAndAcquire(lockable, level, NextLockId)
       IN /\ lockable' = IF r.ok THEN r.lb ELSE lockable
          /\ tokens' = IF r.ok THEN tokens \cup {r.lock} ELSE tokens
    /\ UNCHANGED <<storeVars, otherVars>>

\* lockable.upgrade(lock) with any lock handed out before, released or not.
LockableUpgrade(lock) ==
    /\ lock \in tokens
    /\ LET r == Upgrade(lockable, lock)
       IN /\ lockable' = IF r.ok THEN r.lb ELSE lockable
          /\ tokens' = IF r.ok THEN tokens \cup {r.lock} ELSE tokens
    /\ UNCHANGED <<storeVars, otherVars>>

\* lockable.release(lock) with any lock handed out before.
LockableRelease(lock) ==
    /\ lock \in tokens
    /\ lockable' = Release(lockable, lock)
    /\ UNCHANGED <<storeVars, tokens, otherVars>>

(* ---------------------------- specifications ---------------------------- *)
\* The steps of the transactions T over the paths P, writing the contents C.
Step(T, P, C) ==
    \/ \E t \in T : CreateTransaction(t)
    \/ \E t \in T, p \in P, d \in Flags : GetFile(t, p, d)
    \/ \E t \in T, p \in P : GetFileUrl(t, p)
    \/ \E t \in T, p \in P, c \in C, e \in Flags : PutFile(t, p, c, e)
    \/ \E t \in T, p \in P : DeleteFile(t, p)
    \/ \E t \in T : ListFiles(t)
    \/ \E t \in T : CommitBegin(t)
    \/ \E t \in T, p \in P : CommitFlush(t, p)
    \/ \E t \in T : CommitRelease(t)
    \/ \E t \in T : Abort(t)

\* The same without listFiles.
StepNoList(T, P, C) ==
    \/ \E t \in T : CreateTransaction(t)
    \/ \E t \in T, p \in P, d \in Flags : GetFile(t, p, d)
    \/ \E t \in T, p \in P : GetFileUrl(t, p)
    \/ \E t \in T, p \in P, c \in C, e \in Flags : PutFile(t, p, c, e)
    \/ \E t \in T, p \in P : DeleteFile(t, p)
    \/ \E t \in T : CommitBegin(t)
    \/ \E t \in T, p \in P : CommitFlush(t, p)
    \/ \E t \in T : CommitRelease(t)
    \/ \E t \in T : Abort(t)

OnePath == {"file1"}
OneContent == {"content1"}

\* Concurrent transactions on one file.
Init == InitOver(OnePath, Contents)
Next == Step(Tx, OnePath, Contents)
Spec == Init /\ [][Next]_vars

\* Concurrent transactions on one file over a backend whose writes may fail.
NextCommitFailing ==
    \/ Step(Tx, OnePath, Contents)
    \/ \E t \in Tx, p \in OnePath : CommitFlushFails(t, p)
SpecCommitFailing == Init /\ [][NextCommitFailing]_vars

\* One transaction after the other on all files.
SpecSerial == InitOver(Paths, Contents) /\ [][Step({1}, Paths, Contents)]_vars

\* Concurrent transactions on all files that never list.
SpecNoList ==
    InitOver(Paths, OneContent) /\ [][StepNoList(Tx, Paths, OneContent)]_vars

\* A run is either one of concurrent transactions on one file, or one of the
\* direct client of the Lockable.
NoTransaction == \A t \in Tx : tx[t].status = "none"
NextLocking ==
    \/ \E t \in Tx : tokens = {} /\ CreateTransaction(t)
    \/ \E t \in Tx, p \in OnePath, d \in Flags : tokens = {} /\ GetFile(t, p, d)
    \/ \E t \in Tx, p \in OnePath : tokens = {} /\ GetFileUrl(t, p)
    \/ \E t \in Tx, p \in OnePath, c \in Contents, e \in Flags :
          tokens = {} /\ PutFile(t, p, c, e)
    \/ \E t \in Tx, p \in OnePath : tokens = {} /\ DeleteFile(t, p)
    \/ \E t \in Tx : tokens = {} /\ ListFiles(t)
    \/ \E t \in Tx : tokens = {} /\ CommitBegin(t)
    \/ \E t \in Tx, p \in OnePath : tokens = {} /\ CommitFlush(t, p)
    \/ \E t \in Tx : tokens = {} /\ CommitRelease(t)
    \/ \E t \in Tx : tokens = {} /\ Abort(t)
    \/ \E level \in {Read, Write} : NoTransaction /\ LockableCreateAndAcquire(level)
    \/ \E lock \in tokens : NoTransaction /\ LockableUpgrade(lock)
    \/ \E lock \in tokens : NoTransaction /\ LockableRelease(lock)
SpecLocking == Init /\ [][NextLocking]_vars

\* Concurrent transactions on one file whose clients may call commit and
\* abort on a transaction again after it has ended.
NextReuse ==
    \/ Step(Tx, OnePath, Contents)
    \/ \E t \in Tx : CommitExpired(t)
    \/ \E t \in Tx : AbortExpired(t)
SpecReuse == Init /\ [][NextReuse]_vars

\* Concurrent transactions on one file beside clients that call putFile,
\* deleteFile, listFiles and getFileUrl on the store itself.
NextDirect ==
    \/ Step(Tx, OnePath, Contents)
    \/ \E p \in OnePath, c \in Contents, e \in Flags : DirectPutFile(p, c, e)
    \/ \E p \in OnePath : DirectDeleteFile(p)
    \/ DirectListFiles
    \/ \E p \in OnePath : DirectGetFileUrl(p)
SpecDirect == Init /\ [][NextDirect]_vars

\* A CachedFileSource, write-through or deferred, used directly by one
\* client over a backend that holds any files.
\* A client of the RandomAccessFileSource.  Every call is awaited before
\* the next is made.
RAGetFile(name) ==
    /\ ra' = RAGet(ra, name).r
    /\ raSeen' = [raSeen EXCEPT !.listed = NotListed]
    /\ UNCHANGED <<storeVars, lockVars, cacheVars, memVars, rwVars, jm, jmSeen>>

RAPutFile(name, content, encrypt) ==
    /\ \E r \in {RAPut(ra, name, content, encrypt)} :
          /\ r.created <= MaxContainers
          /\ \A f \in Containers : Len(OrEmpty(r.c.cache[f])) <= MaxText
          /\ ra' = [r EXCEPT !.writes = <<>>]
    /\ raSeen' = [raSeen EXCEPT !.put[name] = content, !.listed = NotListed]
    /\ UNCHANGED <<storeVars, lockVars, cacheVars, memVars, rwVars, jm, jmSeen>>

RADeleteFile(name) ==
    /\ ra' = [RADelete(ra, name) EXCEPT !.writes = <<>>]
    /\ raSeen' = [raSeen EXCEPT !.put[name] = Null, !.listed = NotListed]
    /\ UNCHANGED <<storeVars, lockVars, cacheVars, memVars, rwVars, jm, jmSeen>>

RAListFiles ==
    /\ raSeen' = [raSeen EXCEPT
           !.listed = [res |-> RAList(ra).res, names |-> RAList(ra).names,
                       loaded |-> ra.loaded]]
    /\ UNCHANGED <<storeVars, lockVars, cacheVars, memVars, rwVars, ra, jm, jmSeen>>

\* The explicit load() call.
RALoadCall ==
    /\ ra' = RALoad(ra)
    /\ raSeen' = [raSeen EXCEPT !.listed = NotListed]
    /\ UNCHANGED <<storeVars, lockVars, cacheVars, memVars, rwVars, jm, jmSeen>>

\* Clients that do not await: putFile of a new name begins while other
\* putFile calls wait, and a waiting call goes on when its turn comes.
RAPutBegin(name, content) ==
    /\ IndexAt(RAResolve(ra).fileIndexes, name) = 0
    /\ \A p \in ra.puts : p.name # name
    /\ \E o \in {RAPutRead(ra, name, content, FALSE)} :
          /\ o.r.created <= MaxContainers
          /\ ra' = [o.r EXCEPT !.puts = @ \cup {o.put}]
    /\ raSeen' = [raSeen EXCEPT !.listed = NotListed]
    /\ UNCHANGED <<storeVars, lockVars, cacheVars, memVars, rwVars, jm, jmSeen>>

RAPutEnd(name) ==
    /\ \E p \in ra.puts :
          /\ p.name = name
          /\ ra' = [RAPutWrite(ra, p) EXCEPT !.puts = @ \ {p}, !.writes = <<>>]
          /\ raSeen' = [raSeen EXCEPT !.put[name] = p.content,
                                      !.listed = NotListed]
    /\ UNCHANGED <<storeVars, lockVars, cacheVars, memVars, rwVars, jm, jmSeen>>

\* A client of the JSONMapFileSource.  Every call is awaited before the
\* next is made.
JMGetFile(name) ==
    /\ jm' = JMGet(jm, name).r
    /\ jmSeen' = [jmSeen EXCEPT !.listed = NotListed]
    /\ UNCHANGED <<storeVars, lockVars, cacheVars, memVars, rwVars, ra, raSeen>>

JMPutFile(name, content, encrypt) ==
    /\ \E r \in {JMPut(jm, name, content, encrypt)} :
          /\ r.created <= MaxContainers
          /\ jm' = [r EXCEPT !.writes = <<>>]
    /\ jmSeen' = [jmSeen EXCEPT !.put[name] = content, !.listed = NotListed]
    /\ UNCHANGED <<storeVars, lockVars, cacheVars, memVars, rwVars, ra, raSeen>>

JMDeleteFile(name) ==
    /\ jm' = [JMDelete(jm, name) EXCEPT !.writes = <<>>]
    /\ jmSeen' = [jmSeen EXCEPT !.put[name] = Null, !.listed = NotListed]
    /\ UNCHANGED <<storeVars, lockVars, cacheVars, memVars, rwVars, ra, raSeen>>

JMListFiles ==
    /\ jmSeen' = [jmSeen EXCEPT
           !.listed = [res |-> JMList(jm).res, names |-> JMList(jm).names,
                       loaded |-> jm.loaded]]
    /\ UNCHANGED <<storeVars, lockVars, cacheVars, memVars, rwVars, ra, raSeen, jm>>

\* The explicit load() call.
JMLoadCall ==
    /\ jm' = JMLoad(jm)
    /\ jmSeen' = [jmSeen EXCEPT !.listed = NotListed]
    /\ UNCHANGED <<storeVars, lockVars, cacheVars, memVars, rwVars, ra, raSeen>>

NextCached ==
    \/ \E p \in Paths : CacheGetFile(p)
    \/ \E p \in Paths, c \in Contents : CachePutFile(p, c)
    \/ \E p \in Paths : CacheDeleteFile(p)
    \/ CacheListFiles
    \/ CacheFlush
InitCachedOver(B, A) ==
    /\ InitStore({}, {})
    /\ InitLockable
    /\ InitCached(B, A)
    /\ InitMem
    /\ InitReadWriteLock
    /\ InitPacked({FALSE}, {FALSE})
SpecCached ==
    InitCachedOver(Backends(Paths, Contents), BOOLEAN) /\ [][NextCached]_vars

\* A deferred CachedFileSource whose client calls flush(path) without
\* awaiting it, and reads and writes while the backend call is under way.
NextFlushing ==
    \/ \E p \in Paths : CacheGetFile(p)
    \/ \E p \in Paths, c \in Contents : CachePutFile(p, c)
    \/ \E p \in Paths : CacheDeleteFile(p)
    \/ \E p \in Paths : CacheFlushBegin(p)
    \/ \E p \in Paths : CacheFlushEnd(p)
SpecFlushing ==
    InitCachedOver(Backends(Paths, Contents), {FALSE}) /\ [][NextFlushing]_vars

\* A MemFileSource used directly: files come and go, and are listed with a
\* path filter and an early-stop callback.
NextMem ==
    \/ \E k \in Keys : MemPutFile(k)
    \/ \E k \in Keys : MemDeleteFile(k)
    \/ \E f \in Keys \cup {<<>>}, a \in SUBSET Keys : MemListCall(f, a)
SpecMem == InitOver({}, {}) /\ [][NextMem]_vars

\* Clients of a ReadWriteLockFileSource over a backend with delays.
NextQueue ==
    \/ \E p \in Paths : RWGetFile(p)
    \/ \E p \in Paths : RWGetFileUrl(p)
    \/ \E p \in Paths, c \in Contents : RWPutFile(p, c)
    \/ \E p \in Paths : RWDeleteFile(p)
    \/ \E n \in 1..MaxOps : Settle(n)
    \/ RWListFiles
SpecQueue == InitOver({}, {}) /\ [][NextQueue]_vars

\* The same clients over a backend whose calls may fail; every backend
\* call begun ends, one way or the other.
NextFailing ==
    \/ \E p \in Paths : RWGetFile(p)
    \/ \E p \in Paths : RWPutFile(p, "content1")
    \/ \E p \in Paths : RWDeleteFile(p)
    \/ \E n \in 1..MaxOps : Settle(n)
    \/ \E n \in 1..MaxOps : Fail(n)
BackendSettles == \A n \in 1..MaxOps : WF_vars(Settle(n) \/ Fail(n))
SpecFailing == InitOver({}, {}) /\ [][NextFailing]_vars /\ BackendSettles

\* Concurrent transactions on one file beside clients that use transact.
NextTransact ==
    \/ Step(Tx, OnePath, OneContent)
    \/ \E t \in Tx, body \in Bodies(OnePath, OneContent) : TransactCall(t, body)
SpecTransact == InitOver(OnePath, OneContent) /\ [][NextTransact]_vars

\* A client of a RandomAccessFileSource over a backend that starts empty.
NextRandomAccess ==
    \/ \E k \in Names : RAGetFile(k)
    \/ \E k \in Names, v \in Values, e \in {FALSE} : RAPutFile(k, v, e)
    \/ \E k \in Names : RADeleteFile(k)
    \/ RAListFiles
    \/ RALoadCall
InitRandomAccess ==
    /\ InitStore({}, {})
    /\ InitLockable
    /\ InitCached({NoFiles}, {TRUE})
    /\ InitMem
    /\ InitReadWriteLock
    /\ InitPacked({FALSE}, {FALSE})
SpecRandomAccess == InitRandomAccess /\ [][NextRandomAccess]_vars

\* Clients of a RandomAccessFileSource that put new names without awaiting
\* each other, as the flushes of a commit do, and read and list in between;
\* load() is called while no putFile waits.
NextConcurrentPuts ==
    \/ \E k \in Names, v \in Values : RAPutBegin(k, v)
    \/ \E k \in Names : RAPutEnd(k)
    \/ \E k \in Names : RAGetFile(k)
    \/ RAListFiles
    \/ ra.puts = {} /\ RALoadCall
SpecConcurrentPuts == InitRandomAccess /\ [][NextConcurrentPuts]_vars

\* A client of a JSONMapFileSource over a backend that starts empty.
NextJSONMap ==
    \/ \E k \in JMNames : JMGetFile(k)
    \/ \E k \in JMNames, v \in Values, e \in {FALSE} : JMPutFile(k, v, e)
    \/ \E k \in JMNames : JMDeleteFile(k)
    \/ JMListFiles
    \/ JMLoadCall
InitJSONMap ==
    /\ InitStore({}, {})
    /\ InitLockable
    /\ InitCached({NoFiles}, {TRUE})
    /\ InitMem
    /\ InitReadWriteLock
    /\ InitPacked({FALSE}, {FALSE})
SpecJSONMap == InitJSONMap /\ [][NextJSONMap]_vars

(* ------------------------------ properties ------------------------------ *)
Active(t) == tx[t].status = "active"

\* The transaction has not released its locks yet.
Live(t) == tx[t].status \in {"active", "committing"}

\* The steps that end the abort, and the commit, of transaction t.
Aborts(t) == tx[t].status = "active" /\ tx'[t].status = "ended"
Commits(t) == tx[t].status = "committing" /\ tx'[t].status = "ended"

\* C1: when a transaction is aborted, every file it put or deleted serves
\* afterwards the content it served right before the transaction's first
\* write to it (null where it served none).
AbortRestoresWrites ==
    [][\A t \in Tx : Aborts(t) =>
          \A p \in Paths : hist[t].wrote[p].op # "none" =>
              Serves(fileSource', backend', p) = hist[t].wrote[p].before]_vars

\* C2: when the commit of a transaction completes, each file whose last
\* operation in the transaction was a put has had exactly one backend write
\* on the transaction's behalf, a put of the last content put; each file
\* whose last operation was a delete has had exactly one, a delete; no other
\* file has had any; and no modification is pending for the files written.
CommitFlushesOnce ==
    [][\A t \in Tx : Commits(t) =>
          \A p \in Paths :
              /\ hist[t].wrote[p].op = "put" =>
                     hist[t].bops[p] = <<PutOp(hist[t].wrote[p].content)>>
              /\ hist[t].wrote[p].op = "delete" => hist[t].bops[p] = <<DeleteOp>>
              /\ hist[t].wrote[p].op = "none" => hist[t].bops[p] = <<>>
              /\ hist[t].wrote[p].op # "none" =>
                     /\ fileSource'.modifications[p] = NoMod
                     /\ backend'.files[p] =
                            IF hist[t].wrote[p].op = "put"
                            THEN hist[t].wrote[p].content ELSE Undefined]_vars

\* A commit about to complete that flushed a put of content2 to an existing
\* file and a delete of another.
CommitFlushedPutAndDelete ==
    \E t \in Tx :
        /\ tx[t].status = "committing"
        /\ hist[t].wrote["file1"].op = "put"
        /\ hist[t].wrote["file1"].before = "content1"
        /\ hist[t].bops["file1"] = <<PutOp("content2")>>
        /\ hist[t].wrote["file2"].op = "delete"
        /\ hist[t].bops["file2"] = <<DeleteOp>>

\* C3: a transaction that has not begun to commit has caused no backend
\* write, the step that aborts it leaves the backend as it is, and the
\* backend changes only while a transaction is committing.
AbortLeavesBackend ==
    [][/\ \A t \in Tx : Active(t) =>
              /\ \A p \in Paths : hist[t].bops[p] = <<>>
              /\ Aborts(t) => backend' = backend
       /\ (\A t \in Tx : tx[t].status # "committing") => backend' = backend]_vars

\* A write over a file that served content1 has been rolled back by an
\* abort, with content1 still in the backend.
AbortedPutOverContent ==
    /\ tx[1].status = "ended"
    /\ backend.files["file1"] = "content1"
    /\ fileSource.originalCache["file1"] = "content1"
    /\ fileSource.cache["file1"] = "content1"
    /\ fileSource.modifications["file1"] = NoMod

\* The locks of other ids than the writer's that a Lockable holds.
ForeignReaders(lb) ==
    {i \in 1..Len(lb.readLocks) : lb.readLocks[i].id # lb.writeLock.id}

\* C4: a Lockable with a writer holds no lock of another id, whether it is
\* used directly or through the transactions; at most one transaction
\* records a Write lock for a file, that lock is the writer of the file's
\* Lockable, and no other transaction records any lock for the file then.
WriterExcludesOthers ==
    /\ lockable.writeLock # NoLock => ForeignReaders(lockable) = {}
    /\ \A p \in Paths :
          /\ lockables[p] # <<>> /\ lockables[p][1].writeLock # NoLock =>
                 ForeignReaders(lockables[p][1]) = {}
          /\ \A t \in Tx : (Live(t) /\ tx[t].locks[p].level = Write) =>
                 /\ lockables[p] # <<>>
                 /\ lockables[p][1].writeLock = tx[t].locks[p]
                 /\ \A u \in Tx \ {t} : Live(u) => tx[u].locks[p] = NoLock

\* A transaction holds the Write lock of a file while another one is active.
WriterBesideActive ==
    \E t \in Tx, u \in Tx :
        /\ t # u
        /\ tx[t].locks["file1"].level = Write
        /\ lockables["file1"][1].writeLock.id = t
        /\ Active(u)

\* How the calls of transaction t would end in the current state.
GetRes(t, p) ==
    TxGetFile(lockables, listLocks, tx[t], fileSource, backend, t, p, FALSE).res
UrlRes(t, p) ==
    TxGetFileUrl(lockables, listLocks, tx[t], fileSource, backend, t, p).res
PutRes(t, p, c) ==
    TxPutFile(lockables, listLocks, tx[t], fileSource, backend, t, p, c, FALSE).res
DeleteRes(t, p) ==
    TxDeleteFile(lockables, listLocks, tx[t], fileSource, backend, t, p).res
ListRes(t) ==
    TxListFiles(lockables, listLocks, tx[t], fileSource, backend, t).res

\* C5: for two transactions that are active before and after a step, the
\* first holding a lock on a file before it: if that lock is a Read lock and
\* the first has completed no putFile or deleteFile on the file by the end of
\* the step, a getFile of the file by the second then succeeds; if the first
\* has completed one, the getFile ends in the lock error; and a putFile or
\* deleteFile of the file by the second ends in the lock error either way.
SameKeyMatrix ==
    [][\A t \in Tx, u \in Tx, p \in Paths :
          (/\ t # u
           /\ Active(t) /\ Active(u) /\ tx[t].locks[p] # NoLock
           /\ tx'[t].status = "active" /\ tx'[u].status = "active") =>
              /\ (tx[t].locks[p].level = Read /\ hist'[t].wrote[p].op = "none")
                     => GetRes(u, p)' = "ok"
              /\ hist'[t].wrote[p].op # "none" => GetRes(u, p)' = "LockError"
              /\ \A c \in Contents : PutRes(u, p, c)' = "LockError"
              /\ DeleteRes(u, p)' = "LockError"]_vars

\* The transactions other than t that record a lock, and a list-read lock.
OtherHolders(t, p) == {u \in Tx \ {t} : Live(u) /\ tx[u].locks[p] # NoLock}
OtherListReaders(t) == {u \in Tx \ {t} : Live(u) /\ tx[u].listLock.read # NoLock}
OtherListWriters(t) == {u \in Tx \ {t} : Live(u) /\ tx[u].listLock.write # NoLock}

\* C6: for an active transaction that records a Read lock on a file: if no
\* other transaction records a lock on the file, its write-lock negotiation
\* succeeds and replaces the record by a Write lock of the same id, which
\* becomes the only lock of the Lockable, and its putFile and deleteFile
\* succeed unless another transaction holds a list-read lock; if another
\* transaction records a lock on the file, its putFile and deleteFile end in
\* the lock error and leave every Lockable and every record as they are.
UpgradeOnlyForSoleReader ==
    \A t \in Tx, p \in Paths :
        (Active(t) /\ tx[t].locks[p].level = Read) =>
            LET id == tx[t].locks[p].id
                w == NegotiateWriteLock(lockables, tx[t], p, t)
                del == TxDeleteFile(lockables, listLocks, tx[t], fileSource,
                                    backend, t, p)
                put(c) == TxPutFile(lockables, listLocks, tx[t], fileSource,
                                    backend, t, p, c, FALSE)
            IN /\ OtherHolders(t, p) = {} =>
                      /\ w.ok
                      /\ w.tx.locks[p] = Lock(Write, id)
                      /\ w.lockables[p] =
                             <<[writeLock |-> Lock(Write, id), readLocks |-> <<>>]>>
                      /\ OtherListReaders(t) = {} =>
                             /\ del.res = "ok"
                             /\ \A c \in Contents : put(c).res = "ok"
               /\ OtherHolders(t, p) # {} =>
                      /\ del.res = "LockError"
                      /\ del.lockables = lockables /\ del.tx = tx[t]
                      /\ \A c \in Contents :
                             /\ put(c).res = "LockError"
                             /\ put(c).lockables = lockables /\ put(c).tx = tx[t]

\* Two active transactions hold Read locks on the same file.
TwoReadersOfFile ==
    \E t \in Tx, u \in Tx :
        /\ t # u /\ Active(t) /\ Active(u)
        /\ tx[t].locks["file1"] = Lock(Read, t)
        /\ tx[u].locks["file1"] = Lock(Read, u)
        /\ Len(lockables["file1"][1].readLocks) = 2

\* C7: a getFile or getFileUrl of an active transaction on a file no other
\* transaction records a lock for succeeds, and so does its putFile or
\* deleteFile when no other transaction holds a list-read lock, whatever
\* locks the other transactions hold on other files and whatever list-write
\* locks they hold.
DifferentFilesAdmit ==
    \A t \in Tx, p \in Paths :
        (Active(t) /\ OtherHolders(t, p) = {}) =>
            /\ GetRes(t, p) = "ok"
            /\ UrlRes(t, p) = "ok"
            /\ OtherListReaders(t) = {} =>
                   /\ DeleteRes(t, p) = "ok"
                   /\ \A c \in Contents : PutRes(t, p, c) = "ok"

\* Two active transactions have written different files and both hold a
\* list-write lock.
WritersOfDifferentFiles ==
    \E t \in Tx, u \in Tx :
        /\ t # u /\ Active(t) /\ Active(u)
        /\ hist[t].wrote["file1"].op = "put" /\ tx[t].locks["file1"].level = Write
        /\ hist[u].wrote["file2"].op = "delete" /\ tx[u].locks["file2"].level = Write
        /\ SomeLock(listLocks, Write, t) /\ SomeLock(listLocks, Write, u)

\* C8: a listFiles of an active transaction succeeds exactly if no other
\* transaction holds a list-write lock; its list-write negotiation succeeds
\* exactly if no other transaction holds a list-read lock, and its putFile
\* and deleteFile end in the lock error when one does; a list-read lock of
\* one transaction never coexists with a list-write lock of another, in the
\* transactions' records and in listLocks.
ListLockAdmission ==
    /\ \A t \in Tx : Active(t) =>
          /\ (ListRes(t) = "ok") <=> (OtherListWriters(t) = {})
          /\ NegotiateListWriteLock(listLocks, tx[t], t).ok
                 <=> (OtherListReaders(t) = {})
          /\ OtherListReaders(t) # {} =>
                 \A p \in Paths :
                     /\ DeleteRes(t, p) = "LockError"
                     /\ \A c \in Contents : PutRes(t, p, c) = "LockError"
    /\ \A t \in Tx : (Live(t) /\ OtherListWriters(t) # {}) =>
          tx[t].listLock.read = NoLock
    /\ \A i \in 1..Len(listLocks), j \in 1..Len(listLocks) :
          (listLocks[i].level = Read /\ listLocks[j].level = Write) =>
              listLocks[i].id = listLocks[j].id

\* Two active transactions hold list-read locks, one of them a Read lock on
\* a file as well.
TwoListReaders ==
    \E t \in Tx, u \in Tx :
        /\ t # u /\ Active(t) /\ Active(u)
        /\ tx[t].listLock.read = Lock(Read, t)
        /\ tx[u].listLock.read = Lock(Read, u)
        /\ tx[u].locks["file1"].level = Read
        /\ Len(listLocks) = 2

\* Transaction t holds no lock at all.
HoldsNothing(t) ==
    Live(t) =>
        /\ \A p \in Paths : tx[t].locks[p] = NoLock
        /\ tx[t].listLock.read = NoLock
        /\ tx[t].listLock.write = NoLock

\* C9: when no other transaction records any lock, every getFile,
\* getFileUrl, putFile, deleteFile and listFiles of an active transaction
\* succeeds, whatever locks the transaction itself holds.
OwnLocksNeverDeny ==
    \A t \in Tx :
        (Active(t) /\ \A u \in Tx \ {t} : HoldsNothing(u)) =>
            /\ ListRes(t) = "ok"
            /\ \A p \in Paths :
                  /\ GetRes(t, p) = "ok"
                  /\ UrlRes(t, p) = "ok"
                  /\ DeleteRes(t, p) = "ok"
                  /\ \A c \in Contents : PutRes(t, p, c) = "ok"

\* An active transaction holds the Write lock of a file it wrote, a
\* list-write and a list-read lock, after another transaction has ended.
HoldsWriteAndBothListLocks ==
    \E t \in Tx, u \in Tx :
        /\ Active(t) /\ tx[u].status = "ended" /\ HoldsNothing(u)
        /\ tx[t].locks["file1"].level = Write
        /\ hist[t].wrote["file1"].op # "none"
        /\ tx[t].listLock.write = Lock(Write, t)
        /\ tx[t].listLock.read = Lock(Read, t)

\* C10: every getFile, getFileUrl, putFile, deleteFile and listFiles of a
\* transaction whose commit or abort has begun ends in the "Transactions
\* cannot be reused." error, issues no backend write, and leaves the
\* Lockables, the list locks, the transaction's record, the cache and the
\* backend as they are.
ExpiredRefusesCalls ==
    \A t \in Tx : IsExpired(tx[t]) =>
        LET refused == Outcome("Expired", lockables, listLocks, tx[t],
                               fileSource, backend, <<>>)
        IN /\ TxListFiles(lockables, listLocks, tx[t], fileSource, backend, t)
                  = refused
           /\ \A p \in Paths :
                 /\ \A d \in BOOLEAN :
                        TxGetFile(lockables, listLocks, tx[t], fileSource,
                                  backend, t, p, d) = refused
                 /\ TxGetFileUrl(lockables, listLocks, tx[t], fileSource,
                                 backend, t, p) = refused
                 /\ TxDeleteFile(lockables, listLocks, tx[t], fileSource,
                                 backend, t, p) = refused
                 /\ \A c \in Contents, e \in BOOLEAN :
                        TxPutFile(lockables, listLocks, tx[t], fileSource,
                                  backend, t, p, c, e) = refused

\* A transaction has ended and another is committing with a modification
\* still to flush, while the file exists in the backend.
EndedBesideCommitting ==
    \E t \in Tx, u \in Tx :
        /\ tx[t].status = "ended"
        /\ tx[u].status = "committing"
        /\ fileSource.modifications["file1"] # NoMod
        /\ backend.files["file1"] # Undefined

\* C11: a commit or an abort called on a transaction that has ended leaves
\* the cache, the backend, every Lockable and the list locks as they are,
\* and does not throw on releasing a lock whose Lockable has been deleted.
ExpiredIsTerminal ==
    [][\A t \in Tx : (CommitExpired(t) \/ AbortExpired(t)) =>
          /\ UNCHANGED <<fileSource, backend, lockables, listLocks>>
          /\ ~ReleaseThrows(lockables, tx[t])]_vars

\* C12: when a putFile called on the store has returned, the backend holds
\* the content put for the path; when a deleteFile called on the store has
\* returned, the backend has no file at the path.
DirectWriteReachesBackend ==
    [][\A p \in Paths :
          /\ \A c \in Contents, e \in Flags :
                 DirectPutFile(p, c, e) => backend'.files[p] = c
          /\ DirectDeleteFile(p) => backend'.files[p] = Undefined]_vars

\* C13: while an active transaction holds a lock on a file, a putFile and a
\* deleteFile of the file called on the store end in the lock error and
\* leave the cache as it is; while an active transaction holds a list-write
\* lock, a listFiles called on the store ends in the lock error.
DirectCallsNegotiate ==
    /\ \A p \in Paths :
          (\E t \in Tx : Active(t) /\ tx[t].locks[p] # NoLock) =>
              LET del == StoreDeleteFile(lockables, listLocks, fileSource,
                                         backend, p)
                  put(c) == StorePutFile(lockables, listLocks, fileSource,
                                         backend, p, c, FALSE)
              IN /\ del.res = "LockError" /\ del.fileSource = fileSource
                 /\ \A c \in Contents :
                        /\ put(c).res = "LockError"
                        /\ put(c).fileSource = fileSource
    /\ (\E t \in Tx : Active(t) /\ tx[t].listLock.write # NoLock) =>
           StoreListFiles(lockables, listLocks, fileSource, backend).res
               = "LockError"

\* How the block would end if transact ran it for transaction t now: "ok"
\* if it returns, else the error of the first call that throws.
BlockEnds(t, body) ==
    RunBody(Outcome("ok", lockables, listLocks, NewTransaction, fileSource,
                    backend, <<>>), t, body).res

\* The last putFile or deleteFile of the path among the calls of a block.
RECURSIVE LastWriteOf(_, _)
LastWriteOf(body, p) ==
    IF body = <<>> THEN NoOp
    ELSE LET op == body[Len(body)]
         IN IF op.kind = "put" /\ op.path = p THEN PutOp(op.content)
            ELSE IF op.kind = "delete" /\ op.path = p THEN DeleteOp
            ELSE LastWriteOf(SubSeq(body, 1, Len(body) - 1), p)

\* A lock of the id is left in a Lockable or among the list locks.
IdLeftIn(lbs, ll, id) ==
    \/ \E p \in Paths : /\ lbs[p] # <<>>
                        /\ \/ lbs[p][1].writeLock.id = id
                           \/ HasReader(lbs[p][1], id)
    \/ \E i \in 1..Len(ll) : ll[i].id = id

\* C14: when transact settles, its transaction is expired and holds no lock
\* any more; if the block returned, transact returns and the transaction
\* is committed (the backend holds the block's last write of each file and
\* no modification of it is pending); if a call of the block threw, a lock
\* error included, transact throws the same error and the transaction is
\* aborted (the backend and the pending modifications are as before).
TransactCommitsOrAborts ==
    \A t \in Tx, body \in Bodies(OnePath, OneContent) :
        (tx[t].status \in {"none", "ended"} /\ ~IdInUse(t)) =>
            LET e == BlockEnds(t, body)
                o == Transact(lockables, listLocks, fileSource, backend, t, body)
            IN /\ o.tx.status = "ended"
               /\ ~IdLeftIn(o.lockables, o.listLocks, t)
               /\ o.res = e
               /\ e = "ok" =>
                      \A p \in Paths :
                          LET w == LastWriteOf(body, p)
                          IN /\ w.op = "put" =>
                                    /\ o.backend.files[p] = w.content
                                    /\ o.fileSource.modifications[p] = NoMod
                             /\ w.op = "delete" =>
                                    /\ o.backend.files[p] = Undefined
                                    /\ o.fileSource.modifications[p] = NoMod
                             /\ w.op = "none" =>
                                    o.backend.files[p] = backend.files[p]
               /\ e # "ok" =>
                      /\ o.backend = backend
                      /\ o.fileSource.modifications = fileSource.modifications

\* A transact has settled with the lock error beside an active transaction
\* that holds the Write lock of a file it put, which the backend does not
\* have.
TransactDeniedBesideWriter ==
    \E t \in Tx, u \in Tx :
        /\ tx[t].status = "ended" /\ hist[t].settled = "LockError"
        /\ Active(u) /\ tx[u].locks["file1"].level = Write
        /\ hist[u].wrote["file1"].op = "put"
        /\ backend.files["file1"] = Undefined

\* C15: on a CachedFileSource, write-through or deferred, in any state and
\* whether or not the backend has the file, getFile(path) followed by
\* putFile(path, v) followed by getFile(path) returns v from the last call.
ReadYourWrites ==
    \A p \in Paths, v \in Contents :
        LET g1 == CachedGetFile(cached.c, cached.b, p, FALSE)
            w == CachedPutFile(g1.c, cached.b, p, v, FALSE, cached.autoFlushing)
            g2 == CachedGetFile(w.c, w.b, p, FALSE)
        IN g2.result = v

\* On a deferred cache over a backend without the file, a getFile has
\* returned the content put last, after an earlier getFile had marked the
\* file as absent.
GotPendingPut ==
    /\ ~cached.autoFlushing
    /\ seen.call = "get" /\ seen.path = "file1" /\ seen.result = "content2"
    /\ seen.pending["file1"] = PutOp("content2")
    /\ cached.b.files["file1"] = Undefined
    /\ cached.c.lastEncryptState["file1"] = FALSE
    /\ cached.c.modifications["file1"].type = Updated

\* The file is neither cached, nor deleted by a pending modification, nor
\* marked as absent.
Unknown(c, p) ==
    /\ ~Truthy(MemGetFile(c.cache, p))
    /\ ~IsDeleted(c, p)
    /\ ~c.negativeCache[p]

\* C16: a getFile of a file that is neither cached, nor pending-deleted,
\* nor known absent returns what the backend holds for it (null if
\* nothing) and caches it, so that the next getFile returns the same.
FirstGetReturnsBackend ==
    [][\A p \in Paths :
          (Unknown(cached.c, p) /\ CacheGetFile(p)) =>
              /\ seen'.result = BackendGetFile(cached.b, p)
              /\ CachedGetFile(cached'.c, cached'.b, p, FALSE).result
                     = seen'.result]_vars

\* C17: on a deferred cache, getFile, putFile, deleteFile and listFiles
\* issue no backend write and leave the backend as it is; flush() issues,
\* for each file put or deleted since the last flush, exactly one backend
\* write, that of the latest such call (a put of the content put last, or
\* a delete), leaving the backend with it, and none for any other file.
DeferredUntilFlush ==
    [][~cached.autoFlushing =>
          /\ seen'.call \in {"get", "put", "delete", "list"} =>
                 /\ seen'.issued = NoIssue
                 /\ cached'.b = cached.b
          /\ seen'.call = "flush" =>
                 \A p \in Paths :
                     /\ seen.pending[p] = NoOp =>
                            /\ seen'.issued[p] = <<>>
                            /\ cached'.b.files[p] = cached.b.files[p]
                     /\ seen.pending[p] # NoOp =>
                            /\ seen'.issued[p] = <<seen.pending[p]>>
                            /\ cached'.b.files[p] =
                                   IF seen.pending[p].op = "put"
                                   THEN seen.pending[p].content
                                   ELSE Undefined]_vars

\* A flush() of a deferred cache has issued a put for one file and a delete
\* for the other.
FlushedPutAndDelete ==
    /\ ~cached.autoFlushing
    /\ seen.call = "flush"
    /\ seen.issued["file1"] = <<PutOp("content2")>>
    /\ seen.issued["file2"] = <<DeleteOp>>
    /\ cached.b.files["file1"] = "content2"
    /\ cached.b.files["file2"] = Undefined

\* C18: listFiles without options returns exactly the files the backend
\* has that no pending modification deletes, together with the files a
\* pending modification puts.
ListReturnsLiveFiles ==
    [][seen'.call = "list" =>
          seen'.listed =
              {p \in Paths :
                  \/ /\ cached.b.files[p] # Undefined
                     /\ ~IsDeleted(cached.c, p)
                  \/ cached.c.modifications[p].type = Updated}]_vars

\* C19: a listFiles with a path filter and a callback returns the longest
\* leading run of the names that start with the filter, in the order of
\* the keys, which the callback accepts: all names returned are accepted,
\* and the name after the last returned, if any, is refused.
ListStopsAtFirstRefusal ==
    listing.called =>
        LET filtered == SelectSeq(mem, LAMBDA k : StartsWith(k, listing.pathFilter))
            n == Len(listing.result)
        IN /\ n <= Len(filtered)
           /\ listing.result = SubSeq(filtered, 1, n)
           /\ \A i \in 1..n : filtered[i] \in listing.accepted
           /\ n < Len(filtered) => filtered[n + 1] \notin listing.accepted

\* A listFiles with a filter has returned one name and stopped at a refused
\* one, leaving out a later name that the callback accepts.
StoppedBeforeAccepted ==
    /\ listing.called
    /\ mem = <<<<"a", "b">>, <<"b">>, <<"a">>, <<"a", "a">>>>
    /\ listing.pathFilter = <<"a">>
    /\ listing.accepted = {<<"a", "b">>, <<"a", "a">>, <<"b">>}
    /\ listing.result = <<<<"a", "b">>>>

\* The place of an event in the log, 0 if it is not there.
At(ev, n) ==
    IF \E i \in 1..Len(trace.log) : trace.log[i] = Event(ev, n)
    THEN CHOOSE i \in 1..Len(trace.log) : trace.log[i] = Event(ev, n)
    ELSE 0

IsWrite(op) == op.kind \in {"put", "delete"}

\* What the last write to the path among the first n operations leaves
\* there for a getFile: null after none or after a delete.
RECURSIVE LastWritten(_, _, _)
LastWritten(ops, n, path) ==
    IF n = 0 THEN Null
    ELSE IF IsWrite(ops[n]) /\ ops[n].path = path
    THEN (IF ops[n].kind = "put" THEN ops[n].content ELSE Null)
    ELSE LastWritten(ops, n - 1, path)

\* C20: on a ReadWriteLockFileSource, of two writes (putFile or deleteFile)
\* to the same path the backend call of the one issued later begins only
\* after the backend call of the one issued earlier has ended, however long
\* the backend calls take; and a getFile returns what the last write issued
\* before it to its path has left there.
WritesReachBackendInOrder ==
    /\ \A i, j \in 1..Len(trace.issued) :
           (/\ i < j
            /\ IsWrite(trace.issued[i]) /\ IsWrite(trace.issued[j])
            /\ trace.issued[i].path = trace.issued[j].path
            /\ At("start", j) # 0)
           => /\ At("end", i) # 0
              /\ At("end", i) < At("start", j)
    /\ \A n \in 1..Len(trace.issued) :
           (trace.issued[n].kind = "get" /\ trace.result[n] # Unsettled)
           => trace.result[n] =
                  LastWritten(trace.issued, n - 1, trace.issued[n].path)

\* Two putFile and a getFile of one file were issued while the backend call
\* of the first put was waiting; the calls reached the backend one after
\* the other and the getFile returned the content put last.
QueuedWritesThenGet ==
    /\ trace.issued = <<Operation(1, "put", "file1", "content1"),
                        Operation(2, "put", "file1", "content2"),
                        Operation(3, "get", "file1", Null)>>
    /\ trace.log = <<Event("issue", 1), Event("start", 1), Event("issue", 2),
                     Event("issue", 3), Event("end", 1), Event("start", 2),
                     Event("end", 2), Event("start", 3), Event("end", 3)>>
    /\ trace.result[3] = "content2"

\* The operations whose backend call is in flight for the path.
InFlight(r, path) == {x.op : x \in {y \in r.running : y.op.path = path}}

\* C21: on a ReadWriteLockFileSource, at every moment and for every path, the
\* backend calls in flight for the path are either one putFile or deleteFile
\* and nothing else, or getFile and getFileUrl calls only; and of two calls
\* on one path of which one is a write, the backend call of the one issued
\* later begins only after the backend call of the other has ended.
WriterAloneAtBackend ==
    /\ \A p \in Paths :
           \/ \A op \in InFlight(rw, p) : ~IsWrite(op)
           \/ Cardinality(InFlight(rw, p)) = 1
    /\ \A i, j \in 1..Len(trace.issued) :
           (/\ i < j
            /\ IsWrite(trace.issued[i]) \/ IsWrite(trace.issued[j])
            /\ trace.issued[i].path = trace.issued[j].path
            /\ At("start", j) # 0)
           => /\ At("end", i) # 0
              /\ At("end", i) < At("start", j)

\* A getFile was issued while a putFile of the file was at the backend and
\* began after its end; a deleteFile issued while the getFile was at the
\* backend waits for it.
GetWaitedAndWriteWaits ==
    /\ trace.issued = <<Operation(1, "put", "file1", "content1"),
                        Operation(2, "get", "file1", Null),
                        Operation(3, "delete", "file1", Null)>>
    /\ trace.log = <<Event("issue", 1), Event("start", 1), Event("issue", 2),
                     Event("end", 1), Event("start", 2), Event("issue", 3)>>
    /\ InFlight(rw, "file1") = {Operation(2, "get", "file1", Null)}
    /\ rw.pending["file1"] = <<Operation(3, "delete", "file1", Null)>>

\* The operation just issued is the last of the issued ones, and its
\* backend call is in flight.
BeganAtOnce ==
    /\ Len(trace'.issued) = Len(trace.issued) + 1
    /\ \E x \in rw'.running : x.op.n = Len(trace'.issued)

Idle(r, path) == InFlight(r, path) = {} /\ r.pending[path] = <<>>

NoWriter(r, path) ==
    /\ \A op \in InFlight(r, path) : ~IsWrite(op)
    /\ \A i \in 1..Len(r.pending[path]) : ~IsWrite(r.pending[path][i])

\* C22: on a ReadWriteLockFileSource, a getFile of a path for which no write
\* is at the backend or waiting makes its backend call at once, beside the
\* getFile calls in flight for the path; and a call on a path for which
\* nothing is at the backend or waiting makes its backend call at once,
\* whatever is in flight or waiting on the other paths.
NoDelayWithoutConflict ==
    [][\A p \in Paths :
          /\ (RWGetFile(p) /\ NoWriter(rw, p)) => BeganAtOnce
          /\ ((\/ RWGetFile(p) \/ RWGetFileUrl(p) \/ RWDeleteFile(p)
               \/ \E c \in Contents : RWPutFile(p, c))
              /\ Idle(rw, p)) => BeganAtOnce]_vars

\* Two getFile calls of one file are at the backend together, and so is a
\* putFile of the other file issued after them.
ReadersTogetherBesideWriter ==
    /\ trace.log = <<Event("issue", 1), Event("start", 1), Event("issue", 2),
                     Event("start", 2), Event("issue", 3), Event("start", 3)>>
    /\ InFlight(rw, "file1") = {Operation(1, "get", "file1", Null),
                                Operation(2, "get", "file1", Null)}
    /\ InFlight(rw, "file2") = {Operation(3, "put", "file2", "content1")}

\* C23: listFiles on a ReadWriteLockFileSource returns the names the backend
\* lists, whatever is in flight or waiting, and leaves the Lockables and the
\* queues as they are.
ListReturnsBackendList ==
    [][RWListFiles =>
          /\ trace'.listed = BackendListFiles(rw.fileSource)
          /\ rw' = rw]_vars

\* No commit is between its flushes and its release.
Quiescent == \A t \in Tx : tx[t].status # "committing"

\* The list locks the active transactions record.
ActiveListLocks ==
    {tx[t].listLock.read : t \in {u \in Tx : tx[u].status = "active"}}
    \cup {tx[t].listLock.write : t \in {u \in Tx : tx[u].status = "active"}}

\* C27: a transaction whose commit or abort has completed is in no Lockable
\* and not in listLocks; and whenever no commit is under way, lockables has
\* an entry for a path exactly if an active transaction records a lock on
\* it, and that Lockable is locked, and listLocks holds exactly the list
\* locks the active transactions record, each once.
LockBookkeeping ==
    /\ \A t \in Tx : tx[t].status = "ended" => ~IdInUse(t)
    /\ Quiescent =>
          /\ \A p \in Paths :
                 /\ lockables[p] # <<>> <=>
                        \E t \in Tx : /\ tx[t].status = "active"
                                      /\ tx[t].locks[p] # NoLock
                 /\ lockables[p] # <<>> => IsLocked(lockables[p][1])
          /\ \A i \in 1..Len(listLocks) :
                 /\ listLocks[i] \in ActiveListLocks
                 /\ \A j \in 1..Len(listLocks) : listLocks[j] = listLocks[i] => j = i
          /\ \A l \in ActiveListLocks \ {NoLock} :
                 \E i \in 1..Len(listLocks) : listLocks[i] = l

\* A transaction that held the write lock of the file and both list locks
\* has ended, and the only entries left are those of the other, active
\* transaction, which reads the file and holds the list-read lock.
EndedWriterLeftNothing ==
    /\ tx[1].status = "ended"
    /\ tx[1].locks["file1"] = Lock(Write, 1)
    /\ tx[1].listLock.write = Lock(Write, 1)
    /\ tx[1].listLock.read = Lock(Read, 1)
    /\ tx[2].status = "active"
    /\ lockables["file1"] = <<[writeLock |-> NoLock, readLocks |-> <<Lock(Read, 2)>>]>>
    /\ listLocks = <<Lock(Read, 2)>>

\* C28: while a backend write of a committing transaction is in flight,
\* every file the transaction has write-locked still has it as the writer
\* of its Lockable, and a getFile, putFile or deleteFile of such a file by
\* another, active transaction ends in the lock error.
CommitHoldsLocksWhileFlushing ==
    \A t \in Tx :
        (\E q \in Paths : tx[t].flushes[q] # NoOp) =>
            \A p \in WriteLocked(tx[t]) :
                /\ lockables[p] # <<>>
                /\ lockables[p][1].writeLock = Lock(Write, t)
                /\ \A u \in Tx \ {t} :
                       tx[u].status = "active" =>
                           /\ GetRes(u, p) = "LockError"
                           /\ DeleteRes(u, p) = "LockError"
                           /\ \A c \in Contents : PutRes(u, p, c) = "LockError"

\* A commit of writes to two files has flushed the first and not yet the
\* second, beside an active transaction.
CommitHalfFlushed ==
    /\ tx[1].status = "committing"
    /\ WriteLocked(tx[1]) = {"file1", "file2"}
    /\ tx[1].flushes["file1"] = NoOp
    /\ hist[1].bops["file1"] # <<>>
    /\ tx[1].flushes["file2"] # NoOp
    /\ tx[2].status = "active"

\* C24: in the RandomAccessFileSource, after any puts and deletes getFile
\* returns for every name the content put last, and null for a name never
\* put or deleted since; updating or deleting one entry leaves what getFile
\* returns for the others.
GetReturnsLastPut == \A k \in Names : RAGet(ra, k).result = raSeen.put[k]

\* The file indexes recorded for the k-th random access file.
EntriesOf(r, k) ==
    {i \in 1..Len(r.fileIndexes) :
        r.fileIndexes[i].path = r.randomAccessFileList[k].path}

\* C29: after each put and delete, the blocks [position, position + length)
\* of the entries of one container are pairwise disjoint and lie within
\* [0, size) of the container.
EntriesDisjointWithinContainer ==
    \A k \in 1..Len(ra.randomAccessFileList) :
        /\ \A i \in EntriesOf(ra, k) :
               /\ 0 <= ra.fileIndexes[i].position
               /\ ra.fileIndexes[i].position + ra.fileIndexes[i].length
                      <= ra.randomAccessFileList[k].size
        /\ \A i, j \in EntriesOf(ra, k) :
               i # j =>
                   \/ ra.fileIndexes[i].position + ra.fileIndexes[i].length
                          <= ra.fileIndexes[j].position
                   \/ ra.fileIndexes[j].position + ra.fileIndexes[j].length
                          <= ra.fileIndexes[i].position

\* C26: a listFiles call made as the first operation, before the master
\* was loaded, loads it and returns the names, none when there is no
\* master; it does not fail with the not-loaded error.
ListAsFirstOperationLoads ==
    (raSeen.listed.res # "none" /\ ~raSeen.listed.loaded) =>
        /\ raSeen.listed.res = "ok"
        /\ raSeen.listed.names = <<>>

\* C25: in the JSONMapFileSource, after any puts and deletes getFile returns
\* for every name the content put last, and null for a name never put or
\* deleted since, also after a delete emptied and removed a container and a
\* later put created a new one.
JMGetReturnsLastPut == \A k \in JMNames : JMGet(jm, k).result = jmSeen.put[k]

\* A container was emptied and deleted, a later put created another one,
\* and the two names put are read back.
ContainerRemovedAndRecreated ==
    /\ jm.created = 2
    /\ IsDeleted(jm.c, Container(1))
    /\ Len(jm.jsonMapFileList) = 1
    /\ jmSeen.put["file1"] = "bb"
    /\ jmSeen.put["file2"] = "a"
    /\ JMGet(jm, "file1").result = "bb"
    /\ JMGet(jm, "file2").result = "a"
    /\ JMGet(jm, "file3").result = Null

\* The entries of the stored master that point to the container at path.
MasterEntries(r, path) ==
    LET master == CachedGetFile(r.c, r.b, JMMaster, TRUE).result
        contents == IF Truthy(master) THEN ParseArray(master) ELSE <<>>
    IN {x \in 1..Len(contents) :
           Inner(Property(contents[x], "parentPath")) = path}

\* C30: after every put and delete, the count recorded for a container is
\* the number of keys of the JSON object stored for it, and the number of
\* entries of the master that point to it.
CountIsKeysAndMasterEntries ==
    \A k \in 1..Len(jm.jsonMapFileList) :
        LET jmFile == jm.jsonMapFileList[k]
            stored == CachedGetFile(jm.c, jm.b, jmFile.path, jmFile.encrypted).result
        IN /\ Truthy(stored)
           /\ jmFile.count = Len(ParseObject(stored))
           /\ jmFile.count = Cardinality(MasterEntries(jm, jmFile.path))

\* Two containers, a full one and one with a single key, after file1 was
\* deleted from the first and put again.
FullAndPartContainer ==
    /\ Len(jm.jsonMapFileList) = 2
    /\ jm.jsonMapFileList[1].count = MaxItems
    /\ jm.jsonMapFileList[2].count = 1
    /\ Len(jm.fileIndexes) = 3
    /\ jm.fileIndexes[3].name = "file1"
    /\ jm.fileIndexes[3].path = Container(1)

\* C33: release(lock) with any lock handed out leaves the id of the lock
\* neither the writer nor among the readers, also when the lock passed is
\* the Read lock of an id that was upgraded to Write since.
ReleaseRemovesId ==
    \A lock \in tokens :
        /\ Release(lockable, lock).writeLock.id # lock.id
        /\ ~HasReader(Release(lockable, lock), lock.id)

\* C31: after any puts and deletes, the recorded size of every container
\* of the RandomAccessFileSource, and the length of the text stored for it,
\* is at most maxSize.
ContainersWithinMaxSize ==
    \A k \in 1..Len(ra.randomAccessFileList) :
        /\ ra.randomAccessFileList[k].size <= MaxSize
        /\ Len(OrEmpty(MemGetFile(ra.c.cache, ra.randomAccessFileList[k].path)))
               <= MaxSize

\* The places of the master in the writes of an operation.
MasterWrites(writes, master) == {i \in 1..Len(writes) : writes[i] = master}

\* Whether the writes of an operation end with the one write of the master.
MasterLastAndOnce(writes, master) ==
    MasterWrites(writes, master) = {Len(writes)}

\* The same ordering for the JSONMapFileSource, an invariant of SpecJSONMap.
JMMasterSavedLastAndOnce ==
    /\ \A k \in JMNames, v \in Values :
           MasterLastAndOnce(JMPut(jm, k, v, FALSE).writes, JMMaster)
    /\ \A k \in JMNames :
           IndexAt(JMResolve(jm).fileIndexes, k) # 0 =>
               MasterLastAndOnce(JMDelete(jm, k).writes, JMMaster)

\* C32: every put and every delete of an existing name on a packed store
\* writes the master to the underlying store exactly once, after all the
\* container writes of the operation.
MasterSavedLastAndOnce ==
    /\ \A k \in Names, v \in Values :
           MasterLastAndOnce(RAPut(ra, k, v, FALSE).writes, RAMaster)
    /\ \A k \in Names :
           IndexAt(RAResolve(ra).fileIndexes, k) # 0 =>
               MasterLastAndOnce(RADelete(ra, k).writes, RAMaster)

\* Two names were put into one container of the RandomAccessFileSource;
\* the update of the second overflows: it writes the container, then the
\* new container, then the master.
UpdateOverflows ==
    /\ raSeen.put = [file1 |-> "bb", file2 |-> "a"]
    /\ ra.created = 1
    /\ RAPut(ra, "file2", "bb", FALSE).writes
           = <<Container(1), Container(2), RAMaster>>

\* The puts and deletes a client makes on one key of a CachedFileSource.
Mutations == {PutOp(v) : v \in Contents} \cup {DeleteOp}

\* The cache after the mutation m of the key on a deferred cache.
Mutate(c, b, path, m) ==
    IF m.op = "delete" THEN CachedDeleteFile(c, b, path, FALSE).c
    ELSE CachedPutFile(c, b, path, m.content, FALSE, FALSE).c

\* C34: on a deferred cache, after a run of two mutations of a key that had
\* no pending modification, abortChanges(key) leaves the cache serving for
\* the key what it served before the first mutation (null when the key had
\* no cached value): the second mutation does not replace the original.
AbortRestoresStateBeforeRun ==
    \A p \in Paths, m1 \in Mutations, m2 \in Mutations :
        (~cached.autoFlushing /\ cached.c.modifications[p] = NoMod) =>
            LET c1 == Mutate(cached.c, cached.b, p, m1)
                c2 == Mutate(c1, cached.b, p, m2)
            IN MemGetFile(CachedAbortChanges(c2, p).cache, p)
                   = MemGetFile(cached.c.cache, p)

\* C35: abortChanges(key) of a pending modification without an original, of
\* a key the backend does not hold, leaves the cache without the key: the
\* cache holds no value for it and listFiles does not return it.
AbortWithoutOriginalRemovesKey ==
    \A p \in Paths :
        (/\ cached.c.modifications[p] # NoMod
         /\ ~Truthy(MemGetFile(cached.c.originalCache, p))
         /\ cached.b.files[p] = Undefined) =>
            LET a == CachedAbortChanges(cached.c, p)
            IN /\ ~Truthy(MemGetFile(a.cache, p))
               /\ p \notin CachedListFiles(a, cached.b).result

\* The operation n was submitted; its promise has settled.
Submitted(n) == Len(trace.issued) >= n
Settled(n) == trace.result[n] # Unsettled

\* The operation n holds a lock on the Lockable of its path.
HoldsLock(r, n) ==
    \E p \in Paths :
        /\ r.lockables[p] # <<>>
        /\ \/ r.lockables[p][1].writeLock.id = n
           \/ HasReader(r.lockables[p][1], n)

\* C36: over a backend whose calls all end, every operation submitted to
\* the ReadWriteLockFileSource begins its backend call and settles; when
\* the backend call of an operation fails, the operation holds no lock
\* afterwards and its caller gets the error.
QueueLiveness ==
    /\ \A n \in 1..MaxOps : Submitted(n) ~> Settled(n)
    /\ [](\A n \in 1..MaxOps :
             Settled(n) =>
                 /\ \E i \in 1..Len(trace.log) : trace.log[i] = Event("start", n)
                 /\ ~HoldsLock(rw, n))
    /\ [][\A n \in 1..MaxOps :
             Fail(n) => /\ trace'.result[n] = BackendError
                        /\ ~HoldsLock(rw', n)]_vars

\* A put failed at the backend while a get of the same file waited behind
\* it in the queue; the get has run and settled since.
RanBehindFailure ==
    /\ Len(trace.issued) >= 2
    /\ trace.issued[1].kind = "put" /\ trace.issued[2].kind = "get"
    /\ trace.issued[1].path = trace.issued[2].path
    /\ trace.log = <<Event("issue", 1), Event("start", 1), Event("issue", 2),
                     Event("fail", 1), Event("start", 2), Event("end", 2)>>
    /\ trace.result[1] = BackendError
    /\ trace.result[2] = Null

\* The locks held on the files: a path without a Lockable is a path whose
\* Lockable holds none.
HeldOn(lbs) == [p \in Paths |-> IF lbs[p] = <<>> THEN NewLockable ELSE lbs[p][1]]

\* The outcome o of a call of the transaction t leaves the locks as they
\* are: those the transaction records, those of the Lockables and the list
\* locks.
LeavesLocks(t, o) ==
    /\ o.tx.locks = tx[t].locks
    /\ o.tx.listLock = tx[t].listLock
    /\ HeldOn(o.lockables) = HeldOn(lockables)
    /\ o.listLocks = listLocks

\* C37: a getFile, putFile, deleteFile or listFiles of an active
\* transaction that ends in the lock error leaves the transaction with the
\* locks it held and every Lockable and the list locks as they were.
FailedCallLeavesLocks ==
    \A t \in Tx :
        Active(t) =>
            \A o \in {TxGetFile(lockables, listLocks, tx[t], fileSource,
                                 backend, t, p, FALSE) : p \in Paths}
                   \cup {TxPutFile(lockables, listLocks, tx[t], fileSource,
                                   backend, t, p, c, FALSE) :
                             p \in Paths, c \in Contents}
                   \cup {TxDeleteFile(lockables, listLocks, tx[t], fileSource,
                                      backend, t, p) : p \in Paths}
                   \cup {TxListFiles(lockables, listLocks, tx[t], fileSource,
                                     backend, t)} :
                o.res = "LockError" => LeavesLocks(t, o)

\* C39: a transaction whose commit has settled, with or without a backend
\* error, is in no Lockable and not in listLocks, and a file on which no
\* live transaction records a lock has no Lockable left.
SettledCommitHoldsNoLock ==
    /\ \A t \in Tx : tx[t].status = "ended" => ~IdInUse(t)
    /\ \A p \in Paths :
           (\A t \in Tx : Live(t) => tx[t].locks[p] = NoLock) =>
               lockables[p] = <<>>

\* C40: once the putFile calls of distinct new names that ran concurrently
\* on a RandomAccessFileSource have all completed, getFile returns for each
\* name the content put, and the entries of a container do not overlap.
ConcurrentPutsKept ==
    (ra.loaded /\ ra.puts = {}) =>
        /\ \A k \in Names :
               raSeen.put[k] # Null => RAGet(ra, k).result = raSeen.put[k]
        /\ \A i, j \in 1..Len(ra.fileIndexes) :
               (i # j /\ ra.fileIndexes[i].path = ra.fileIndexes[j].path) =>
                   \/ ra.fileIndexes[i].position + ra.fileIndexes[i].length
                          <= ra.fileIndexes[j].position
                   \/ ra.fileIndexes[j].position + ra.fileIndexes[j].length
                          <= ra.fileIndexes[i].position

\* C38: on a deferred cache, whenever no flush of a file is under way and
\* the file has no pending modification, the backend holds what the cache
\* holds for it: a putFile or deleteFile made while a flush waited for the
\* backend was written by that flush or has stayed pending until a later one.
MutationDuringFlushKept ==
    \A p \in Paths :
        (cached.flushing[p] = NoOp /\ cached.c.modifications[p] = NoMod) =>
            /\ Truthy(MemGetFile(cached.c.cache, p)) =>
                   BackendGetFile(cached.b, p) = MemGetFile(cached.c.cache, p)
            /\ cached.c.negativeCache[p] => ~Truthy(BackendGetFile(cached.b, p))
====
